---- MODULE Spec2Model ----
(***************************************************************************)
(* Model of the transcript correction server (server.ts): the handler of   *)
(* POST /api/enhance with its batch loop, the per-segment correction unit  *)
(* (factCheckWithAI, makeRequest) and the retry controller (withRetry),    *)
(* and the handler of GET /api/transcript with the validation of its input *)
(* (validateYouTubeInput, extractVideoId); of the client-side helpers      *)
(* enhanceTranscriptLine and enhanceTranscriptBatch (ai-service.ts); and   *)
(* of the component App (App.tsx) with its fetch, enhance and history.     *)
(*                                                                         *)
(* A text is a sequence of one-character strings, so that String.trim is   *)
(* computed and not assumed.  The handler is cut at its await points: one  *)
(* action per continuation that the event loop runs to completion.         *)
(***************************************************************************)
EXTENDS Integers, Sequences, FiniteSets, TLC

VARIABLES
    body,            \* the request body of POST /api/enhance (req.body.transcript)
    oracle,          \* how the correction oracle behaves in this run
    pc,              \* position of the handler: "idle", "await", "sleep", "done"
    i,               \* the batch loop's index variable (0-based, as in the code)
    units,           \* per segment: the promise of its map callback and the
                     \* locals of its withRetry call
    processedTexts,  \* the completed-texts log
    corrected,       \* the results sequence
    response,        \* what res.json sent
    timer,           \* milliseconds of the handler's pending sleep, 0 when none
    oracleAnswer,    \* history: per segment, what its correction unit got from
                     \* the oracle ("none" yet, "failed" for good, or a text)
    fetched,         \* makeRequest on its own: what its fetch came back with
    requestResult,   \* makeRequest on its own: how the call ended
    query,           \* req.query.url of GET /api/transcript
    built,           \* history: the parts query.url was assembled from
    tpc,             \* position of the transcript handler: "idle", "fetching", "done"
    validation,      \* what validateYouTubeInput returned
    spawned,         \* the identifiers fetch_transcript.py was started with
    source,          \* how the subprocess ended
    tresponse,       \* what the transcript handler sent
    runs,            \* two POST /api/enhance requests in progress at once: per
                     \* request, its body and the locals of its handler
    lineText,        \* enhanceTranscriptLine on its own: its argument
    lineRequests,    \* the number of requests the call has issued
    lineFetch,       \* what its fetch came back with
    lineResult,      \* what the promise of the call settled with
    texts,           \* the argument of enhanceTranscriptBatch
    onProgress,      \* whether a progress callback was passed
    bpc,             \* position of enhanceTranscriptBatch: "idle", "await", "sleep", "done"
    bi,              \* its loop index i (0-based, as in the code)
    lines,           \* per index of the current batch, what its promise resolved with
    enhanced,        \* the Map the function builds and returns
    progress,        \* history: the calls of onProgress, in order
    reordered,       \* history: some line settled before a line of lower index
    answers,         \* history: per line index, what enhanceTranscriptLine resolved with
    videoUrl,        \* App: the state videoUrl, the value of the input
    uiTranscript,    \* App: the state transcript, as the video it is of and
                     \* whether it went through /api/enhance
    loading,         \* App: the state loading
    uiError,         \* App: the state error
    recentSearches,  \* App: the state recentSearches
    enhancing,       \* App: the state enhancing
    localStorage,    \* the list under STORAGE_KEYS.RECENT_SEARCHES
    fetchCall,       \* the call of fetchTranscript that awaits its response,
                     \* with the values its closure holds
    enhanceCall,     \* the call of enhanceTranscript that awaits its response
    lastFetched,     \* history: the URL of the last transcript the server sent
    retryText,       \* factCheckWithAI on its own: its argument text
    rpc,             \* position of its withRetry: "idle", "attempt", "wait", "done"
    retryAttempt,    \* the loop variable attempt
    lastError,       \* the local lastError
    attempts,        \* history: what each call of fn ended with
    retryResult,     \* how withRetry settled
    factResult       \* what factCheckWithAI returned

enhanceVars ==
    <<body, oracle, pc, i, units, processedTexts, corrected, response, timer, oracleAnswer>>

requestVars == <<fetched, requestResult>>

transcriptVars == <<query, built, tpc, validation, spawned, source, tresponse>>

pairVars == <<runs>>

lineVars == <<lineText, lineRequests, lineFetch, lineResult>>

batchVars == <<texts, onProgress, bpc, bi, lines, enhanced, progress, reordered, answers>>

uiVars ==
    <<videoUrl, uiTranscript, loading, uiError, recentSearches, enhancing,
      localStorage, fetchCall, enhanceCall, lastFetched>>

retryVars == <<retryText, rpc, retryAttempt, lastError, attempts, retryResult, factResult>>

\* the variables of the functions that are modelled on their own
aloneVars == <<lineVars, batchVars, uiVars, retryVars>>

vars == <<enhanceVars, requestVars, transcriptVars, pairVars, aloneVars>>

\* what the steps of one POST /api/enhance request leave alone
outsideEnhance == <<requestVars, transcriptVars, pairVars, aloneVars>>

----------------------------------------------------------------------------
(* Bounds of the model *)

MaxSegs == 5
MaxContentLen == 3
MaxFetched == 2
MaxRunSegs == 4
MaxTexts == 11
MaxUrls == 6
MaxShown == 3

(* config.ai and the arguments of withRetry *)

batchSize == 3
contextLines == 3
batchDelayMs == 1500
maxRetries == 3
baseDelay == 1000

(* the lengths in the pattern of a video identifier *)

minIdLength == 5
maxIdLength == 20

----------------------------------------------------------------------------
(* Texts *)

\* the JavaScript value undefined where a string is expected
Undefined == <<"undefined">>

Min(a, b) == IF a < b THEN a ELSE b
Max(a, b) == IF a > b THEN a ELSE b

IsWhitespace(c) == c \in {" ", "\t", "\n", "\r"}

RECURSIVE TrimStart(_)
TrimStart(s) ==
    IF s = <<>> THEN s
    ELSE IF IsWhitespace(Head(s)) THEN TrimStart(Tail(s)) ELSE s

RECURSIVE TrimEnd(_)
TrimEnd(s) ==
    IF s = <<>> THEN s
    ELSE IF IsWhitespace(s[Len(s)]) THEN TrimEnd(SubSeq(s, 1, Len(s) - 1)) ELSE s

\* String.prototype.trim
Trim(s) == TrimEnd(TrimStart(s))

\* Array.prototype.slice(from, to) with 0 <= from: 0-based, end exclusive,
\* clipped to the array's length
Slice(s, from, to) == SubSeq(s, from + 1, Min(to, Len(s)))

\* Array.prototype.slice(-k)
SliceLast(s, k) == SubSeq(s, Max(0, Len(s) - k) + 1, Len(s))

----------------------------------------------------------------------------
(* Request bodies *)

Letters == <<"a", "b", "c", "d", "e", "f", "g">>
Capitals == <<"A", "B", "C", "D", "E", "F", "G">>

\* texts a, b, c, ... g, a, ...
PlainText(k) == << Letters[((k - 1) % 7) + 1] >>

\* texts with whitespace at the ends, inside, or nothing at all
PaddedText(k) ==
    CASE k % 4 = 1 -> <<" ", "a">>
      [] k % 4 = 2 -> <<>>
      [] k % 4 = 3 -> <<"b", " ">>
      [] OTHER     -> <<"a", " ", "b">>

\* a transcript whose fifth segment has no text field
MalformedText(k) == IF k = 5 THEN Undefined ELSE PlainText(k)

FamilyText(f, k) ==
    CASE f = 1 -> PlainText(k)
      [] f = 2 -> PaddedText(k)
      [] OTHER -> MalformedText(k)

\* TranscriptItem
Segment(f, k) ==
    [text |-> FamilyText(f, k), duration |-> 100 + k, offset |-> 1000 * (k - 1)]

Transcript(f, n) == [k \in 1..n |-> Segment(f, k)]

Bodies(maxLen) ==
    {[kind |-> "missing", items |-> <<>>], [kind |-> "notArray", items |-> <<>>]}
    \cup {[kind |-> "array", items |-> Transcript(f, n)] : f \in 1..3, n \in 0..maxLen}

WellFormed(items) == \A k \in 1..Len(items) : items[k].text # Undefined

----------------------------------------------------------------------------
(* The correction oracle: what one fetch of makeRequest can come back with *)

Upper(c) ==
    IF \E j \in 1..Len(Letters) : Letters[j] = c
    THEN Capitals[CHOOSE j \in 1..Len(Letters) : Letters[j] = c]
    ELSE c

\* a text the oracle may propose instead of the line it was given
Correct(t) ==
    IF t = Undefined \/ Trim(t) = <<>> THEN <<"x">>
    ELSE [j \in 1..Len(Trim(t)) |-> Upper(Trim(t)[j])]

Completions(t) ==
    (IF t = Undefined THEN {} ELSE {t})
    \cup {<<" ">> \o Correct(t) \o <<" ">>, <<>>, <<" ">>}

\* fetch rejects, a status that is not ok, a body without
\* choices[0].message.content, or a body with a content
OracleOutcomes(t) ==
    {[kind |-> k, content |-> <<>>] : k \in {"netError", "status", "noContent"}}
    \cup {[kind |-> "content", content |-> c] : c \in Completions(t)}

----------------------------------------------------------------------------
(* factCheckWithAI.makeRequest, from the response on *)

\* the request of one attempt: the line and the context block of the prompt
Prompt(text, context) ==
    [line |-> text,
     block |-> IF Len(context) > 0 THEN SliceLast(context, contextLines) ELSE <<>>]

\* Oracles that answer the same request the same way:
\*   "scenario"   returns every line unchanged, except "e", which becomes "E"
\*   "down"       answers every request with an error status
\*   "contextual" has no completion for the line "c", and rewrites a line
\*                when the prompt carries a context block of 1 or 3 lines
DetPolicies == {"scenario", "down", "contextual"}

Echo(line) == IF line = Undefined THEN <<"x">> ELSE line

DetOutcome(policy, prompt) ==
    CASE policy = "down" -> [kind |-> "status", content |-> <<>>]
      [] policy = "scenario" ->
            [kind |-> "content",
             content |-> IF prompt.line = <<"e">> THEN <<"E">> ELSE Echo(prompt.line)]
      [] OTHER ->
            IF prompt.line = <<"c">> THEN [kind |-> "noContent", content |-> <<>>]
            ELSE IF Len(prompt.block) \in {1, 3}
            THEN [kind |-> "content", content |-> Correct(prompt.line)]
            ELSE [kind |-> "content", content |-> Echo(prompt.line)]

OutcomesFor(policy, text, context) ==
    IF policy = "any" THEN OracleOutcomes(text)
    ELSE {DetOutcome(policy, Prompt(text, context))}

Failure(e) == [ok |-> FALSE, text |-> <<>>, error |-> e]

\* a request that returns the completion as it came
makeRequest_noTrim(outcome) ==
    CASE outcome.kind = "netError"  -> Failure("fetch failed")
      [] outcome.kind = "status"    -> Failure("AI API request failed")
      [] outcome.kind = "noContent" -> Failure("No response from AI")
      [] OTHER ->
            IF Trim(outcome.content) = <<>> THEN Failure("No response from AI")
            ELSE [ok |-> TRUE, text |-> outcome.content, error |-> ""]

makeRequest(outcome) ==
    CASE outcome.kind = "netError"  -> Failure("fetch failed")
      [] outcome.kind = "status"    -> Failure("AI API request failed")
      [] outcome.kind = "noContent" -> Failure("No response from AI")
      [] OTHER ->
            LET correctedText == Trim(outcome.content)
            IN  IF correctedText = <<>> THEN Failure("No response from AI")
                ELSE [ok |-> TRUE, text |-> correctedText, error |-> ""]

\* a wait that grows by baseDelay with every attempt
BackoffDelay_linear(attempt) == baseDelay * (attempt + 1)

\* withRetry: the wait after failed attempt number `attempt`
BackoffDelay(attempt) == baseDelay * (2 ^ attempt)

----------------------------------------------------------------------------
(* The map callback of app.post('/api/enhance') *)

\* the whole log up to the current index, not its last contextLines entries
ContextFor_fromStart(log, currentIndex) == Slice(log, 0, currentIndex)

\* const context = processedTexts.slice(Math.max(0, currentIndex - contextLines), currentIndex)
ContextFor(log, currentIndex) ==
    Slice(log, Max(0, currentIndex - contextLines), currentIndex)

\* the texts compared as they are, without trim
Annotate_noTrim(item, correctedText) ==
    LET hasError == correctedText # item.text
    IN  [text |-> correctedText,
         duration |-> item.duration,
         offset |-> item.offset,
         original |-> IF hasError THEN item.text ELSE Undefined,
         corrected |-> IF hasError THEN correctedText ELSE Undefined,
         hasError |-> hasError]

\* the flag computed, the text of the segment left as it was
Annotate_keepText(item, correctedText) ==
    LET hasError == Trim(correctedText) # Trim(item.text)
    IN  [text |-> item.text,
         duration |-> item.duration,
         offset |-> item.offset,
         original |-> IF hasError THEN item.text ELSE Undefined,
         corrected |-> IF hasError THEN correctedText ELSE Undefined,
         hasError |-> hasError]

\* the object the callback returns
Annotate(item, correctedText) ==
    LET hasError == Trim(correctedText) # Trim(item.text)
    IN  [text |-> correctedText,
         duration |-> item.duration,
         offset |-> item.offset,
         original |-> IF hasError THEN item.text ELSE Undefined,
         corrected |-> IF hasError THEN correctedText ELSE Undefined,
         hasError |-> hasError]

\* the value of a promise that has none yet
NoResult ==
    [text |-> Undefined, duration |-> 0, offset |-> 0,
     original |-> Undefined, corrected |-> Undefined, hasError |-> FALSE]

IdleUnit ==
    [phase |-> "idle", context |-> <<>>, attempt |-> 0, delays |-> <<>>,
     result |-> NoResult]

\* transcript.map instead of batch.map: everything left is dispatched at once
DispatchBatch_all(us, log, start, n) ==
    [s \in 1..n |->
        IF s > start
        THEN [phase |-> "request", context |-> ContextFor(log, s - 1),
              attempt |-> 0, delays |-> <<>>, result |-> NoResult]
        ELSE us[s]]

\* a slice that is one segment too long
DispatchBatch_offByOne(us, log, start, n) ==
    [s \in 1..n |->
        IF s > start /\ s <= start + batchSize + 1
        THEN [phase |-> "request", context |-> ContextFor(log, s - 1),
              attempt |-> 0, delays |-> <<>>, result |-> NoResult]
        ELSE us[s]]

\* batch.map(async ...): every callback runs to its first await, the fetch of
\* attempt 0, before the handler reaches Promise.all
DispatchBatch(us, log, start, n) ==
    [s \in 1..n |->
        IF s > start /\ s <= start + batchSize
        THEN [phase |-> "request", context |-> ContextFor(log, s - 1),
              attempt |-> 0, delays |-> <<>>, result |-> NoResult]
        ELSE us[s]]

BatchOf(start, n) == {s \in 1..n : s > start /\ s <= start + batchSize}

\* a callback that throws on a text that is falsy: undefined or ""
Settle_truthy(u, item, correctedText) ==
    IF item.text = Undefined \/ item.text = <<>> \/ correctedText = Undefined
    THEN [u EXCEPT !.phase = "rejected", !.attempt = 0, !.delays = <<>>]
    ELSE [u EXCEPT !.phase = "resolved", !.attempt = 0, !.delays = <<>>,
                   !.result = Annotate(item, correctedText)]

\* the callback's code after await factCheckWithAI: trim of a text that is no
\* string throws, which rejects the callback's promise
Settle(u, item, correctedText) ==
    IF item.text = Undefined \/ correctedText = Undefined
    THEN [u EXCEPT !.phase = "rejected", !.attempt = 0, !.delays = <<>>]
    ELSE [u EXCEPT !.phase = "resolved", !.attempt = 0, !.delays = <<>>,
                   !.result = Annotate(item, correctedText)]

\* return text.trim() in the catch
Fallback_trimmed(u, item) == Settle(u, item, Trim(item.text))

\* no catch: the error of the last attempt leaves factCheckWithAI
Fallback_throw(u, item) == [u EXCEPT !.phase = "rejected", !.attempt = 0, !.delays = <<>>]

\* a catch that starts the retries again
Fallback_again(u, item) == [u EXCEPT !.phase = "request", !.attempt = 0, !.delays = <<>>]

\* factCheckWithAI's catch: return text
Fallback(u, item) == Settle(u, item, item.text)

----------------------------------------------------------------------------
(* Responses *)

NoResponse == [status |-> 0, success |-> FALSE, error |-> "", transcript |-> <<>>]

ErrorResponse(status, error) ==
    [status |-> status, success |-> FALSE, error |-> error, transcript |-> <<>>]

SuccessResponse(transcript) ==
    [status |-> 200, success |-> TRUE, error |-> "", transcript |-> transcript]

----------------------------------------------------------------------------
(* makeRequest on its own: every response of at most MaxContentLen characters *)

ContentChars == {" ", "\n", "a", "b"}

Contents(maxLen) == UNION {[1..k -> ContentChars] : k \in 0..maxLen}

FetchOutcomes(maxLen) ==
    {[kind |-> k, content |-> <<>>] : k \in {"netError", "status", "noContent"}}
    \cup {[kind |-> "content", content |-> c] : c \in Contents(maxLen)}

NoFetch == [kind |-> "none", content |-> <<>>]

Pending == [ok |-> FALSE, text |-> <<>>, error |-> "pending"]

RequestIdle == fetched = NoFetch /\ requestResult = Pending

\* no pair of concurrent requests
PairIdle == runs = <<>>

----------------------------------------------------------------------------
(* GET /api/transcript: strings, validateYouTubeInput and extractVideoId *)

\* String.prototype.indexOf, counted from 1, and 0 when sub does not occur
IndexOf(s, sub) ==
    LET hits == {p \in 1..(Len(s) - Len(sub) + 1) : SubSeq(s, p, p + Len(sub) - 1) = sub}
    IN  IF hits = {} THEN 0 ELSE CHOOSE p \in hits : \A q \in hits : p <= q

\* String.prototype.includes
Includes(s, sub) == IndexOf(s, sub) # 0

\* s.split(sep)[0]
SplitAt0(s, sep) ==
    LET p == IndexOf(s, sep) IN IF p = 0 THEN s ELSE SubSeq(s, 1, p - 1)

\* s.split(sep)[1], undefined when sep does not occur in s
SplitAt1(s, sep) ==
    LET p == IndexOf(s, sep)
    IN  IF p = 0 THEN Undefined ELSE SplitAt0(SubSeq(s, p + Len(sep), Len(s)), sep)

\* x?.split(sep)[0]
OptSplitAt0(x, sep) == IF x = Undefined THEN Undefined ELSE SplitAt0(x, sep)

\* x || ''
OrEmpty(x) == IF x = Undefined THEN <<>> ELSE x

\* 'youtube.com/watch?v='
StrWatch ==
    <<"y", "o", "u", "t", "u", "b", "e", ".", "c", "o", "m", "/", "w", "a",
      "t", "c", "h", "?", "v", "=">>

\* 'youtu.be/'
StrYoutuBe ==
    <<"y", "o", "u", "t", "u", ".", "b", "e", "/">>

\* 'youtube.com/shorts/'
StrShorts ==
    <<"y", "o", "u", "t", "u", "b", "e", ".", "c", "o", "m", "/", "s", "h",
      "o", "r", "t", "s", "/">>

\* 'youtube.com/embed/'
StrEmbed ==
    <<"y", "o", "u", "t", "u", "b", "e", ".", "c", "o", "m", "/", "e", "m",
      "b", "e", "d", "/">>

\* the characters of [a-zA-Z0-9_-]
IdChars ==
    {"a", "b", "c", "d", "e", "f", "g", "h", "i", "j", "k", "l", "m", "n",
     "o", "p", "q", "r", "s", "t", "u", "v", "w", "x", "y", "z", "A", "B",
     "C", "D", "E", "F", "G", "H", "I", "J", "K", "L", "M", "N", "O", "P",
     "Q", "R", "S", "T", "U", "V", "W", "X", "Y", "Z", "0", "1", "2", "3",
     "4", "5", "6", "7", "8", "9", "_", "-"}

\* /^[a-zA-Z0-9_-]{5,20}$/.test(videoId)
MatchesIdPattern(videoId) ==
    /\ Len(videoId) >= minIdLength
    /\ Len(videoId) <= maxIdLength
    /\ \A k \in 1..Len(videoId) : videoId[k] \in IdChars

extractVideoId(input) ==
    LET videoId ==
            IF Includes(input, StrWatch)
            THEN OrEmpty(OptSplitAt0(OptSplitAt0(SplitAt1(input, <<"v", "=">>), <<"&">>), <<"?">>))
            ELSE IF Includes(input, StrYoutuBe)
            THEN OrEmpty(OptSplitAt0(OptSplitAt0(SplitAt1(input, StrYoutuBe), <<"?">>), <<"&">>))
            ELSE IF Includes(input, StrShorts)
            THEN OrEmpty(OptSplitAt0(OptSplitAt0(
                     SplitAt1(input, <<"s", "h", "o", "r", "t", "s", "/">>), <<"?">>), <<"&">>))
            ELSE IF Includes(input, StrEmbed)
            THEN OrEmpty(OptSplitAt0(OptSplitAt0(
                     SplitAt1(input, <<"e", "m", "b", "e", "d", "/">>), <<"?">>), <<"&">>))
            ELSE Trim(input)
    IN  SplitAt0(SplitAt0(SplitAt0(videoId, <<"?">>), <<"#">>), <<"&">>)

Invalid(error, videoId) ==
    [valid |-> FALSE, videoId |-> Undefined, error |-> error, extracted |-> videoId]

\* a validation without the test of the pattern
validateYouTubeInput_noPattern(input, isURL) ==
    IF input.kind # "string" \/ input.url = <<>>
    THEN Invalid("Invalid input", Undefined)
    ELSE LET trimmed == Trim(input.url)
             videoId == extractVideoId(trimmed)
         IN  IF (Includes(trimmed, <<":", "/", "/">>) \/ Includes(trimmed, <<"w", "w", "w", ".">>))
                /\ ~isURL
             THEN Invalid("Invalid URL format", Undefined)
             ELSE IF videoId = <<>> \/ Len(videoId) < minIdLength
             THEN Invalid("Could not extract valid video ID", videoId)
             ELSE [valid |-> TRUE, videoId |-> videoId, error |-> "", extracted |-> videoId]

\* a length test that asks for more than minIdLength characters
validateYouTubeInput_longer(input, isURL) ==
    IF input.kind # "string" \/ input.url = <<>>
    THEN Invalid("Invalid input", Undefined)
    ELSE LET trimmed == Trim(input.url)
             videoId == extractVideoId(trimmed)
         IN  IF (Includes(trimmed, <<":", "/", "/">>) \/ Includes(trimmed, <<"w", "w", "w", ".">>))
                /\ ~isURL
             THEN Invalid("Invalid URL format", Undefined)
             ELSE IF videoId = <<>> \/ Len(videoId) <= minIdLength
             THEN Invalid("Could not extract valid video ID", videoId)
             ELSE IF ~MatchesIdPattern(videoId)
             THEN Invalid("Invalid video ID format", videoId)
             ELSE [valid |-> TRUE, videoId |-> videoId, error |-> "", extracted |-> videoId]

\* input is req.query.url; isURL is what validator.isURL says of the trimmed
\* input; extracted records the local videoId where the function got that far
validateYouTubeInput(input, isURL) ==
    IF input.kind # "string" \/ input.url = <<>>
    THEN Invalid("Invalid input", Undefined)
    ELSE LET trimmed == Trim(input.url)
             videoId == extractVideoId(trimmed)
         IN  IF (Includes(trimmed, <<":", "/", "/">>) \/ Includes(trimmed, <<"w", "w", "w", ".">>))
                /\ ~isURL
             THEN Invalid("Invalid URL format", Undefined)
             ELSE IF videoId = <<>> \/ Len(videoId) < minIdLength
             THEN Invalid("Could not extract valid video ID", videoId)
             ELSE IF ~MatchesIdPattern(videoId)
             THEN Invalid("Invalid video ID format", videoId)
             ELSE [valid |-> TRUE, videoId |-> videoId, error |-> "", extracted |-> videoId]

(* The inputs of GET /api/transcript: a prefix, an identifier, a tail *)

Shapes == {"watch", "youtu.be", "shorts", "embed", "bare", "noScheme", "other"}

\* 'https://www.youtube.com/watch?v='
UrlWatch ==
    <<"h", "t", "t", "p", "s", ":", "/", "/", "w", "w", "w", ".", "y", "o",
      "u", "t", "u", "b", "e", ".", "c", "o", "m", "/", "w", "a", "t", "c",
      "h", "?", "v", "=">>

\* 'https://youtu.be/'
UrlYoutuBe ==
    <<"h", "t", "t", "p", "s", ":", "/", "/", "y", "o", "u", "t", "u", ".",
      "b", "e", "/">>

\* 'https://youtube.com/shorts/'
UrlShorts ==
    <<"h", "t", "t", "p", "s", ":", "/", "/", "y", "o", "u", "t", "u", "b",
      "e", ".", "c", "o", "m", "/", "s", "h", "o", "r", "t", "s", "/">>

\* 'https://www.youtube.com/embed/'
UrlEmbed ==
    <<"h", "t", "t", "p", "s", ":", "/", "/", "w", "w", "w", ".", "y", "o",
      "u", "t", "u", "b", "e", ".", "c", "o", "m", "/", "e", "m", "b", "e",
      "d", "/">>

\* 'https://vimeo.com/'
UrlOther ==
    <<"h", "t", "t", "p", "s", ":", "/", "/", "v", "i", "m", "e", "o", ".",
      "c", "o", "m", "/">>

ShapePrefix(shape) ==
    CASE shape = "watch"    -> UrlWatch
      [] shape = "youtu.be" -> UrlYoutuBe
      [] shape = "shorts"   -> UrlShorts
      [] shape = "embed"    -> UrlEmbed
      [] shape = "noScheme" -> StrYoutuBe
      [] shape = "other"    -> UrlOther
      [] OTHER              -> <<>>

\* 'dQw4w9WgXcQ'
IdVideo ==
    <<"d", "Q", "w", "4", "w", "9", "W", "g", "X", "c", "Q">>

\* 'short'
IdShort ==
    <<"s", "h", "o", "r", "t">>

\* 'abcd'
IdFour ==
    <<"a", "b", "c", "d">>

\* 'abcdefghij0123456789'
IdTwenty ==
    <<"a", "b", "c", "d", "e", "f", "g", "h", "i", "j", "0", "1", "2", "3",
      "4", "5", "6", "7", "8", "9">>

\* 'abcdefghij0123456789X'
IdTwentyOne ==
    <<"a", "b", "c", "d", "e", "f", "g", "h", "i", "j", "0", "1", "2", "3",
      "4", "5", "6", "7", "8", "9", "X">>

\* 'a_b-c'
IdDashes ==
    <<"a", "_", "b", "-", "c">>

\* 'abc;ls'
IdShell ==
    <<"a", "b", "c", ";", "l", "s">>

\* 'abc\ndef'
IdNewline ==
    <<"a", "b", "c", "\n", "d", "e", "f">>

Ids == {IdVideo, IdShort, IdFour, IdTwenty, IdTwentyOne, IdDashes, IdShell, IdNewline, <<>>}

\* '?t=10'
TailQuery ==
    <<"?", "t", "=", "1", "0">>

\* '&t=10'
TailAmp ==
    <<"&", "t", "=", "1", "0">>

\* '#t=10'
TailFragment ==
    <<"#", "t", "=", "1", "0">>

\* '&feature=youtu.be'
TailFeature ==
    <<"&", "f", "e", "a", "t", "u", "r", "e", "=", "y", "o", "u", "t", "u",
      ".", "b", "e">>

\* '?u=youtu.be/zzzzz'
TailLink ==
    <<"?", "u", "=", "y", "o", "u", "t", "u", ".", "b", "e", "/", "z", "z",
      "z", "z", "z">>

\* '?a\nb'
TailNewline ==
    <<"?", "a", "\n", "b">>

\* '#a\rb'
TailReturn ==
    <<"#", "a", "\r", "b">>

\* '&a' + the null byte + 'b'; "\\0" stands for the one character U+0000
TailNul ==
    <<"&", "a", "\\0", "b">>

Tails ==
    {<<>>, TailQuery, TailAmp, TailFragment, TailFeature, TailLink,
     TailNewline, TailReturn, TailNul}

Pads == {<<>>, <<" ">>}

Parts == [shape : Shapes, id : Ids, tail : Tails, pad : Pads]

UrlOf(parts) ==
    parts.pad \o ShapePrefix(parts.shape) \o parts.id \o parts.tail \o parts.pad

NoParts == [shape |-> "none", id |-> <<>>, tail |-> <<>>, pad |-> <<>>]

\* the transcript source: the subprocess fails, prints success: false, or
\* prints a transcript
SourceOutcomes(maxLen) ==
    {[kind |-> k, transcript |-> <<>>] : k \in {"execError", "notSuccess"}}
    \cup {[kind |-> "transcript", transcript |-> Transcript(1, n)] : n \in 0..maxLen}

NoTranscriptResponse ==
    [status |-> 0, success |-> FALSE, error |-> "", transcript |-> <<>>, videoId |-> Undefined]

TranscriptError(status, error) ==
    [status |-> status, success |-> FALSE, error |-> error, transcript |-> <<>>,
     videoId |-> Undefined]

TranscriptSuccess(transcript, videoId) ==
    [status |-> 200, success |-> TRUE, error |-> "", transcript |-> transcript,
     videoId |-> videoId]

NoValidation == Invalid("none", Undefined)

NoSource == [kind |-> "none", transcript |-> <<>>]

TranscriptStart ==
    /\ tpc = "idle"
    /\ validation = NoValidation
    /\ spawned = <<>>
    /\ source = NoSource
    /\ tresponse = NoTranscriptResponse

TranscriptIdle ==
    /\ query = [kind |-> "missing", url |-> <<>>]
    /\ built = NoParts
    /\ TranscriptStart

----------------------------------------------------------------------------
(* ai-service.ts: enhanceTranscriptLine and enhanceTranscriptBatch *)

lineBatchSize == 5

\* what the fetch of enhanceTranscriptLine can come back with: the outcomes
\* of a fetch, and a response whose body response.json() cannot read
LineOutcomes(maxLen) ==
    FetchOutcomes(maxLen) \cup {[kind |-> "bodyError", content |-> <<>>]}

\* the promise of an async call: "pending", "fulfilled" or "rejected"
LinePending ==
    [promise |-> "pending", success |-> FALSE, enhanced |-> Undefined,
     error |-> "", original |-> Undefined]

\* the return of the catch block
LineFailure(e, text) ==
    [promise |-> "fulfilled", success |-> FALSE, enhanced |-> Undefined,
     error |-> e, original |-> text]

\* a call that lets the error of a status that is not ok escape
enhanceTranscriptLine_rethrow(text, outcome) ==
    CASE outcome.kind = "netError"  -> LineFailure("fetch failed", text)
      [] outcome.kind = "bodyError" -> LineFailure("Unexpected token", text)
      [] outcome.kind = "status"    ->
            [promise |-> "rejected", success |-> FALSE, enhanced |-> Undefined,
             error |-> "API request failed", original |-> Undefined]
      [] outcome.kind = "noContent" -> LineFailure("No response from AI", text)
      [] OTHER ->
            LET enhancedText == Trim(outcome.content)
            IN  IF enhancedText = <<>> THEN LineFailure("No response from AI", text)
                ELSE [promise |-> "fulfilled", success |-> TRUE, enhanced |-> enhancedText,
                      error |-> "", original |-> text]

\* enhanceTranscriptLine from the settling of its fetch on
enhanceTranscriptLine(text, outcome) ==
    CASE outcome.kind = "netError"  -> LineFailure("fetch failed", text)
      [] outcome.kind = "bodyError" -> LineFailure("Unexpected token", text)
      [] outcome.kind = "status"    -> LineFailure("API request failed", text)
      [] outcome.kind = "noContent" -> LineFailure("No response from AI", text)
      [] OTHER ->
            LET enhancedText == Trim(outcome.content)
            IN  IF enhancedText = <<>> THEN LineFailure("No response from AI", text)
                ELSE [promise |-> "fulfilled", success |-> TRUE, enhanced |-> enhancedText,
                      error |-> "", original |-> text]

\* the arguments of the call on its own
LineTexts == {<<>>, <<"a">>, <<" ", "a", "b">>}

LineIdle ==
    /\ lineText = <<>>
    /\ lineRequests = 0
    /\ lineFetch = NoFetch
    /\ lineResult = LinePending

\* texts a, b, c, ...
BatchTexts(n) == [k \in 1..n |-> PlainText(k)]

\* what the fetch for one line of a batch can come back with
BatchOutcomes(text) ==
    {[kind |-> "status", content |-> <<>>],
     [kind |-> "content", content |-> <<" ">> \o Correct(text)]}

\* the indexes of texts.slice(start, start + batchSize), 0-based
BatchIndexes(start) == start..(Min(start + lineBatchSize, Len(texts)) - 1)

\* a promise of the batch that has not resolved
NoLine == [promise |-> "pending", index |-> -1, text |-> Undefined]

\* a callback that numbers the lines within their batch
ThenResult_batchIndex(start, idx, result) ==
    [promise |-> result.promise,
     index |-> idx,
     text |-> IF result.success THEN result.enhanced ELSE texts[start + idx + 1]]

\* the then callback: ({ index: i + idx, text: result.success ? result.enhanced! : text })
ThenResult(start, idx, result) ==
    [promise |-> result.promise,
     index |-> start + idx,
     text |-> IF result.success THEN result.enhanced ELSE texts[start + idx + 1]]

\* results.forEach(({ index, text }) => enhanced.set(index, text))
StoreResults(map, results) ==
    LET keys == {results[k].index : k \in DOMAIN results}
    IN  [key \in DOMAIN map \cup keys |->
            IF key \in keys
            THEN results[CHOOSE k \in DOMAIN results : results[k].index = key].text
            ELSE map[key]]

BatchStart0 ==
    /\ bpc = "idle"
    /\ bi = 0
    /\ lines = <<>>
    /\ enhanced = <<>>
    /\ progress = <<>>
    /\ reordered = FALSE
    /\ answers = <<>>

BatchIdle ==
    /\ texts = <<>>
    /\ onProgress = FALSE
    /\ BatchStart0

(* App.tsx: the component App *)

MaxRecentSearches == 5

NoUrl == <<"none">>

\* transcript = []
NoTranscript == [video |-> NoUrl, enhanced |-> FALSE]

NoCall == [active |-> FALSE, videoUrl |-> NoUrl, recentSearches |-> <<>>]

NoEnhanceCall == [active |-> FALSE, transcript |-> NoTranscript]

UiIdle ==
    /\ videoUrl = <<>>
    /\ uiTranscript = NoTranscript
    /\ loading = FALSE
    /\ uiError = ""
    /\ recentSearches = <<>>
    /\ enhancing = FALSE
    /\ localStorage = <<>>
    /\ fetchCall = NoCall
    /\ enhanceCall = NoEnhanceCall
    /\ lastFetched = NoUrl

(* factCheckWithAI and withRetry on their own *)

NoError == "none"

RetryPending == [settled |-> "pending", value |-> Undefined, error |-> NoError]

RetryStart ==
    /\ rpc = "idle"
    /\ retryAttempt = 0
    /\ lastError = NoError
    /\ attempts = <<>>
    /\ retryResult = RetryPending
    /\ factResult = Undefined

RetryIdle ==
    /\ retryText = <<>>
    /\ RetryStart

AloneIdle == LineIdle /\ BatchIdle /\ UiIdle /\ RetryIdle

----------------------------------------------------------------------------
(* Actions *)

Start ==
    /\ pc = "idle"
    /\ i = 0
    /\ units = <<>>
    /\ processedTexts = <<>>
    /\ corrected = <<>>
    /\ response = NoResponse
    /\ timer = 0
    /\ oracleAnswer = <<>>

\* any oracle: every attempt may come back with any outcome
Init ==
    /\ body \in Bodies(MaxSegs)
    /\ oracle = "any"
    /\ Start
    /\ RequestIdle
    /\ TranscriptIdle
    /\ PairIdle
    /\ AloneIdle

\* an oracle whose answer is a function of the request, on longer transcripts
InitDet ==
    /\ body \in Bodies(MaxSegs + 2)
    /\ oracle \in DetPolicies
    /\ Start
    /\ RequestIdle
    /\ TranscriptIdle
    /\ PairIdle
    /\ AloneIdle

EnhanceIdle ==
    /\ body = [kind |-> "missing", items |-> <<>>]
    /\ oracle = "any"
    /\ Start

\* one call of makeRequest for every response a fetch can come back with
InitMakeRequest ==
    /\ fetched \in FetchOutcomes(MaxContentLen)
    /\ requestResult = Pending
    /\ EnhanceIdle
    /\ TranscriptIdle
    /\ PairIdle
    /\ AloneIdle

\* one GET /api/transcript for every input
InitTranscript ==
    /\ \/ /\ built \in Parts
          /\ query = [kind |-> "string", url |-> UrlOf(built)]
       \/ /\ built = NoParts
          /\ query \in {[kind |-> k, url |-> <<>>] : k \in {"missing", "string", "array"}}
    /\ TranscriptStart
    /\ EnhanceIdle
    /\ RequestIdle
    /\ PairIdle
    /\ AloneIdle

\* a handler without the test of transcript.length === 0
EnhanceRequest_noEmptyTest ==
    /\ pc = "idle"
    /\ IF body.kind # "array"
       THEN /\ response' = ErrorResponse(400, "Invalid transcript data")
            /\ pc' = "done"
            /\ UNCHANGED <<units, oracleAnswer>>
       ELSE LET n == Len(body.items)
            IN  /\ units' = DispatchBatch([s \in 1..n |-> IdleUnit], <<>>, 0, n)
                /\ oracleAnswer' = [s \in 1..n |-> [st |-> "none", text |-> <<>>]]
                /\ pc' = "await"
                /\ UNCHANGED response
    /\ UNCHANGED <<body, oracle, i, processedTexts, corrected, timer>>
    /\ UNCHANGED outsideEnhance

\* the handler up to its first await: validation, then the first batch
EnhanceRequest ==
    /\ pc = "idle"
    /\ IF body.kind # "array"
       THEN /\ response' = ErrorResponse(400, "Invalid transcript data")
            /\ pc' = "done"
            /\ UNCHANGED <<units, oracleAnswer>>
       ELSE IF Len(body.items) = 0
       THEN /\ response' = ErrorResponse(400, "Transcript is empty")
            /\ pc' = "done"
            /\ UNCHANGED <<units, oracleAnswer>>
       ELSE LET n == Len(body.items)
            IN  /\ units' = DispatchBatch([s \in 1..n |-> IdleUnit], <<>>, 0, n)
                /\ oracleAnswer' = [s \in 1..n |-> [st |-> "none", text |-> <<>>]]
                /\ pc' = "await"
                /\ UNCHANGED response
    /\ UNCHANGED <<body, oracle, i, processedTexts, corrected, timer>>
    /\ UNCHANGED outsideEnhance

\* the log shared with the running units: a unit pushes its text when it
\* completes, and its siblings read their context from the log as it is
OracleStep_sharedLog(s, outcome) ==
    LET u == units[s]
        item == body.items[s]
        r == makeRequest(outcome)
        done == r.ok \/ u.attempt >= maxRetries
        settled == IF r.ok THEN Settle(u, item, r.text) ELSE Fallback(u, item)
        log == IF done THEN Append(processedTexts, settled.result.text) ELSE processedTexts
    IN  /\ u.phase = "request"
        /\ processedTexts' = log
        /\ units' = [t \in DOMAIN units |->
                IF t = s
                THEN IF done THEN settled
                     ELSE [u EXCEPT !.phase = "wait",
                                    !.delays = Append(u.delays, BackoffDelay(u.attempt))]
                ELSE IF units[t].phase \in {"request", "wait"}
                THEN [units[t] EXCEPT !.context = ContextFor(log, t - 1)]
                ELSE units[t]]
        /\ oracleAnswer' = [oracleAnswer EXCEPT ![s] =
                IF r.ok THEN [st |-> "ok", text |-> r.text]
                ELSE IF done THEN [st |-> "failed", text |-> <<>>] ELSE @]
        /\ UNCHANGED <<body, oracle, pc, i, corrected, response, timer>>
        /\ UNCHANGED outsideEnhance

\* a retry loop that runs while attempt <= maxRetries + 1
OracleStep_oneMore(s, outcome) ==
    LET u == units[s]
        item == body.items[s]
        r == makeRequest(outcome)
    IN  /\ u.phase = "request"
        /\ IF r.ok
           THEN /\ units' = [units EXCEPT ![s] = Settle(u, item, r.text)]
                /\ oracleAnswer' = [oracleAnswer EXCEPT ![s] = [st |-> "ok", text |-> r.text]]
           ELSE IF u.attempt <= maxRetries
           THEN /\ units' = [units EXCEPT ![s] =
                        [u EXCEPT !.phase = "wait",
                                  !.delays = Append(u.delays, BackoffDelay(u.attempt))]]
                /\ UNCHANGED oracleAnswer
           ELSE /\ units' = [units EXCEPT ![s] = Fallback(u, item)]
                /\ oracleAnswer' = [oracleAnswer EXCEPT ![s] = [st |-> "failed", text |-> <<>>]]
        /\ UNCHANGED <<body, oracle, pc, i, processedTexts, corrected, response, timer>>
        /\ UNCHANGED outsideEnhance

\* one attempt of unit s gets `outcome`: the continuation of await fetch in
\* makeRequest, through withRetry and factCheckWithAI, into the map callback
OracleStep(s, outcome) ==
    LET u == units[s]
        item == body.items[s]
        r == makeRequest(outcome)
    IN  /\ u.phase = "request"
        /\ IF r.ok
           THEN /\ units' = [units EXCEPT ![s] = Settle(u, item, r.text)]
                /\ oracleAnswer' = [oracleAnswer EXCEPT ![s] = [st |-> "ok", text |-> r.text]]
           ELSE IF u.attempt < maxRetries
           THEN /\ units' = [units EXCEPT ![s] =
                        [u EXCEPT !.phase = "wait",
                                  !.delays = Append(u.delays, BackoffDelay(u.attempt))]]
                /\ UNCHANGED oracleAnswer
           ELSE /\ units' = [units EXCEPT ![s] = Fallback(u, item)]
                /\ oracleAnswer' = [oracleAnswer EXCEPT ![s] = [st |-> "failed", text |-> <<>>]]
        /\ UNCHANGED <<body, oracle, pc, i, processedTexts, corrected, response, timer>>
        /\ UNCHANGED outsideEnhance

OracleRespond ==
    \E s \in DOMAIN units :
        \E outcome \in OutcomesFor(oracle, body.items[s].text, units[s].context) :
            OracleStep(s, outcome)

\* withRetry: sleep(delay) is over, the loop makes the next attempt
BackoffElapsed ==
    \E s \in DOMAIN units :
        /\ units[s].phase = "wait"
        /\ units' = [units EXCEPT ![s] =
                [@ EXCEPT !.phase = "request", !.attempt = @ + 1]]
        /\ UNCHANGED <<body, oracle, pc, i, processedTexts, corrected, response, timer, oracleAnswer>>
        /\ UNCHANGED outsideEnhance

\* Promise.race instead of Promise.all
BatchSettled_any(start, n) == \E s \in BatchOf(start, n) : units[s].phase = "resolved"

BatchSettled(start, n) == \A s \in BatchOf(start, n) : units[s].phase = "resolved"

\* the values collected last first
BatchResults_rev(start, n) ==
    LET m == Cardinality(BatchOf(start, n))
    IN  [k \in 1..m |-> units[start + (m + 1 - k)].result]

\* results of Promise.all: the callbacks' values in the order of the batch
BatchResults(start, n) ==
    [k \in 1..Cardinality(BatchOf(start, n)) |-> units[start + k].result]

\* the pause taken when i + batchSize <= transcript.length
FanIn_lte ==
    /\ pc = "await"
    /\ LET n == Len(body.items)
           results == BatchResults(i, n)
       IN  /\ BatchSettled(i, n)
           /\ processedTexts' = processedTexts \o [k \in 1..Len(results) |-> results[k].text]
           /\ corrected' = corrected \o results
           /\ IF i + batchSize <= n
              THEN /\ pc' = "sleep"
                   /\ timer' = batchDelayMs
                   /\ UNCHANGED <<i, response>>
              ELSE /\ i' = i + batchSize
                   /\ response' = SuccessResponse(corrected')
                   /\ pc' = "done"
                   /\ UNCHANGED timer
    /\ UNCHANGED <<body, oracle, units, oracleAnswer>>
    /\ UNCHANGED outsideEnhance

\* a log that is replaced by the texts of the batch instead of extended
FanIn_resetLog ==
    /\ pc = "await"
    /\ LET n == Len(body.items)
           results == BatchResults(i, n)
       IN  /\ BatchSettled(i, n)
           /\ processedTexts' = [k \in 1..Len(results) |-> results[k].text]
           /\ corrected' = corrected \o results
           /\ IF i + batchSize < n
              THEN /\ pc' = "sleep"
                   /\ timer' = batchDelayMs
                   /\ UNCHANGED <<i, response>>
              ELSE /\ i' = i + batchSize
                   /\ response' = SuccessResponse(corrected')
                   /\ pc' = "done"
                   /\ UNCHANGED timer
    /\ UNCHANGED <<body, oracle, units, oracleAnswer>>
    /\ UNCHANGED outsideEnhance

\* the continuation of await Promise.all(promises)
FanIn ==
    /\ pc = "await"
    /\ LET n == Len(body.items)
           results == BatchResults(i, n)
       IN  /\ BatchSettled(i, n)
           /\ processedTexts' = processedTexts \o [k \in 1..Len(results) |-> results[k].text]
           /\ corrected' = corrected \o results
           /\ IF i + batchSize < n
              THEN /\ pc' = "sleep"
                   /\ timer' = batchDelayMs
                   /\ UNCHANGED <<i, response>>
              ELSE /\ i' = i + batchSize
                   /\ response' = SuccessResponse(corrected')
                   /\ pc' = "done"
                   /\ UNCHANGED timer
    /\ UNCHANGED <<body, oracle, units, oracleAnswer>>
    /\ UNCHANGED outsideEnhance

\* sleep(config.ai.batchDelayMs) is over: the loop's next iteration
BatchDelayElapsed ==
    /\ pc = "sleep"
    /\ timer' = 0
    /\ i' = i + batchSize
    /\ units' = DispatchBatch(units, processedTexts, i', Len(body.items))
    /\ pc' = "await"
    /\ UNCHANGED <<body, oracle, processedTexts, corrected, response, oracleAnswer>>
    /\ UNCHANGED outsideEnhance

\* a catch that answers with the results collected so far
RunAbort_partial ==
    /\ pc = "await"
    /\ \E s \in BatchOf(i, Len(body.items)) : units[s].phase = "rejected"
    /\ response' = SuccessResponse(corrected)
    /\ pc' = "done"
    /\ UNCHANGED <<body, oracle, i, units, processedTexts, corrected, timer, oracleAnswer>>
    /\ UNCHANGED outsideEnhance

\* Promise.all rejects with the first rejection: the handler's catch
RunAbort ==
    /\ pc = "await"
    /\ \E s \in BatchOf(i, Len(body.items)) : units[s].phase = "rejected"
    /\ response' = ErrorResponse(500, "Cannot read properties of undefined")
    /\ pc' = "done"
    /\ UNCHANGED <<body, oracle, i, units, processedTexts, corrected, timer, oracleAnswer>>
    /\ UNCHANGED outsideEnhance

\* makeRequest from the response of its fetch to its return or throw
MakeRequest ==
    /\ fetched # NoFetch
    /\ requestResult = Pending
    /\ requestResult' = makeRequest(fetched)
    /\ UNCHANGED <<fetched, enhanceVars, transcriptVars, pairVars, aloneVars>>

\* the handler of GET /api/transcript up to await fetchYoutubeTranscript
TranscriptRequest ==
    /\ tpc = "idle"
    /\ IF query.kind = "missing" \/ (query.kind = "string" /\ query.url = <<>>)
       THEN /\ tresponse' = TranscriptError(400, "Video URL is required")
            /\ tpc' = "done"
            /\ UNCHANGED <<validation, spawned>>
       ELSE \E isURL \in BOOLEAN :
            /\ validation' = validateYouTubeInput(query, isURL)
            /\ IF ~validation'.valid
               THEN /\ tresponse' = TranscriptError(400, validation'.error)
                    /\ tpc' = "done"
                    /\ UNCHANGED spawned
               ELSE /\ spawned' = Append(spawned, validation'.videoId)
                    /\ tpc' = "fetching"
                    /\ UNCHANGED tresponse
    /\ UNCHANGED <<query, built, source, enhanceVars, requestVars, pairVars, aloneVars>>

\* a handler that answers whatever the source returned
TranscriptFetched_noEmptyTest ==
    /\ tpc = "fetching"
    /\ \E outcome \in SourceOutcomes(MaxFetched) :
            /\ source' = outcome
            /\ tresponse' =
                    IF outcome.kind # "transcript"
                    THEN TranscriptError(500, "Failed to fetch transcript")
                    ELSE TranscriptSuccess(outcome.transcript, validation.videoId)
    /\ tpc' = "done"
    /\ UNCHANGED <<query, built, validation, spawned, enhanceVars, requestVars, pairVars, aloneVars>>

\* the subprocess ends: fetchYoutubeTranscript returns or throws, and the
\* handler answers
TranscriptFetched ==
    /\ tpc = "fetching"
    /\ \E outcome \in SourceOutcomes(MaxFetched) :
            /\ source' = outcome
            /\ tresponse' =
                    IF outcome.kind # "transcript"
                    THEN TranscriptError(500, "Failed to fetch transcript")
                    ELSE IF Len(outcome.transcript) = 0
                    THEN TranscriptError(404, "No transcript available for this video")
                    ELSE TranscriptSuccess(outcome.transcript, validation.videoId)
    /\ tpc' = "done"
    /\ UNCHANGED <<query, built, validation, spawned, enhanceVars, requestVars, pairVars, aloneVars>>

Next ==
    \/ EnhanceRequest
    \/ OracleRespond
    \/ BackoffElapsed
    \/ FanIn
    \/ BatchDelayElapsed
    \/ RunAbort

Spec == Init /\ [][Next]_vars

SpecDet == InitDet /\ [][Next]_vars

\* the bodies whose segments are plain up to the one without a text
InitPlain ==
    /\ body \in {b \in Bodies(MaxSegs) : b.kind = "array" => b.items = Transcript(3, Len(b.items))}
    /\ oracle = "any"
    /\ Start
    /\ RequestIdle
    /\ TranscriptIdle
    /\ PairIdle
    /\ AloneIdle

\* every fetch settles, every timer fires, every ready continuation runs
SpecOracleReturns ==
    /\ InitPlain
    /\ [][Next]_vars
    /\ WF_vars(EnhanceRequest)
    /\ WF_vars(OracleRespond)
    /\ WF_vars(BackoffElapsed)
    /\ WF_vars(FanIn)
    /\ WF_vars(BatchDelayElapsed)
    /\ WF_vars(RunAbort)

----------------------------------------------------------------------------
(* Two POST /api/enhance requests at once.  Each call of the handler has   *)
(* its own transcript, i, promises, corrected and processedTexts: they are *)
(* locals of the call (server.ts:342-363).  The oracle answers by policy.  *)

Runs == {1, 2}

Digits == <<"1", "2", "3", "4", "5", "6", "7">>

\* the transcript of the second request: texts 1, 2, 3, ...
DigitTranscript(n) ==
    [k \in 1..n |->
        [text |-> << Digits[((k - 1) % 7) + 1] >>, duration |-> 200 + k, offset |-> 500 * (k - 1)]]

NewRun(items) ==
    [items |-> items, pc |-> "idle", i |-> 0, units |-> <<>>,
     processedTexts |-> <<>>, corrected |-> <<>>, response |-> NoResponse, timer |-> 0]

InitPair ==
    /\ \E n1, n2 \in 1..MaxRunSegs :
            runs = <<NewRun(Transcript(1, n1)), NewRun(DigitTranscript(n2))>>
    /\ body = [kind |-> "missing", items |-> <<>>]
    /\ oracle \in {"scenario", "contextual"}
    /\ Start
    /\ RequestIdle
    /\ TranscriptIdle
    /\ AloneIdle

\* the handler of request r up to its first await; the bodies of InitPair
\* are non-empty arrays, which pass both tests of the body
PairEnhanceRequest(r) ==
    LET run == runs[r]
        n == Len(run.items)
    IN  /\ run.pc = "idle"
        /\ n > 0
        /\ runs' = [runs EXCEPT ![r] =
                [run EXCEPT !.units = DispatchBatch([s \in 1..n |-> IdleUnit], <<>>, 0, n),
                            !.pc = "await"]]
        /\ UNCHANGED <<enhanceVars, requestVars, transcriptVars, aloneVars>>

\* one attempt of unit s of request r is answered
PairOracleRespond(r) ==
    LET run == runs[r]
    IN  \E s \in DOMAIN run.units :
            LET u == run.units[s]
                item == run.items[s]
                res == makeRequest(DetOutcome(oracle, Prompt(item.text, u.context)))
            IN  /\ u.phase = "request"
                /\ runs' = [runs EXCEPT ![r] =
                        [run EXCEPT !.units[s] =
                            IF res.ok THEN Settle(u, item, res.text)
                            ELSE IF u.attempt < maxRetries
                            THEN [u EXCEPT !.phase = "wait",
                                           !.delays = Append(u.delays, BackoffDelay(u.attempt))]
                            ELSE Fallback(u, item)]]
                /\ UNCHANGED <<enhanceVars, requestVars, transcriptVars, aloneVars>>

PairBackoffElapsed(r) ==
    LET run == runs[r]
    IN  \E s \in DOMAIN run.units :
            /\ run.units[s].phase = "wait"
            /\ runs' = [runs EXCEPT ![r] =
                    [run EXCEPT !.units[s] = [@ EXCEPT !.phase = "request", !.attempt = @ + 1]]]
            /\ UNCHANGED <<enhanceVars, requestVars, transcriptVars, aloneVars>>

\* the results of the batch of request r that starts at start
PairResults(run, start) ==
    [k \in 1..Cardinality(BatchOf(start, Len(run.items))) |-> run.units[start + k].result]

\* a log that belongs to the module: every request pushes to the one array,
\* which every request reads its contexts from
PairFanIn_moduleLog(r) ==
    LET run == runs[r]
        n == Len(run.items)
        results == PairResults(run, run.i)
        more == run.i + batchSize < n
        log == run.processedTexts \o [k \in 1..Len(results) |-> results[k].text]
    IN  /\ run.pc = "await"
        /\ \A s \in BatchOf(run.i, n) : run.units[s].phase = "resolved"
        /\ runs' = [q \in DOMAIN runs |->
                IF q = r
                THEN [run EXCEPT
                        !.processedTexts = log,
                        !.corrected = run.corrected \o results,
                        !.pc = IF more THEN "sleep" ELSE "done",
                        !.timer = IF more THEN batchDelayMs ELSE 0,
                        !.i = IF more THEN run.i ELSE run.i + batchSize,
                        !.response = IF more THEN run.response
                                     ELSE SuccessResponse(run.corrected \o results)]
                ELSE [runs[q] EXCEPT !.processedTexts = log]]
        /\ UNCHANGED <<enhanceVars, requestVars, transcriptVars, aloneVars>>

\* the continuation of await Promise.all(promises) of request r
PairFanIn(r) ==
    LET run == runs[r]
        n == Len(run.items)
        results == PairResults(run, run.i)
        more == run.i + batchSize < n
    IN  /\ run.pc = "await"
        /\ \A s \in BatchOf(run.i, n) : run.units[s].phase = "resolved"
        /\ runs' = [runs EXCEPT ![r] =
                [run EXCEPT
                    !.processedTexts = run.processedTexts \o [k \in 1..Len(results) |-> results[k].text],
                    !.corrected = run.corrected \o results,
                    !.pc = IF more THEN "sleep" ELSE "done",
                    !.timer = IF more THEN batchDelayMs ELSE 0,
                    !.i = IF more THEN run.i ELSE run.i + batchSize,
                    !.response = IF more THEN run.response
                                 ELSE SuccessResponse(run.corrected \o results)]]
        /\ UNCHANGED <<enhanceVars, requestVars, transcriptVars, aloneVars>>

\* sleep(config.ai.batchDelayMs) of request r is over
PairBatchDelayElapsed(r) ==
    LET run == runs[r]
    IN  /\ run.pc = "sleep"
        /\ runs' = [runs EXCEPT ![r] =
                [run EXCEPT
                    !.timer = 0,
                    !.i = run.i + batchSize,
                    !.units = DispatchBatch(run.units, run.processedTexts,
                                            run.i + batchSize, Len(run.items)),
                    !.pc = "await"]]
        /\ UNCHANGED <<enhanceVars, requestVars, transcriptVars, aloneVars>>

NextPair ==
    \/ \E r \in Runs : PairEnhanceRequest(r)
    \/ \E r \in Runs : PairOracleRespond(r)
    \/ \E r \in Runs : PairBackoffElapsed(r)
    \/ \E r \in Runs : PairFanIn(r)
    \/ \E r \in Runs : PairBatchDelayElapsed(r)

SpecPair == InitPair /\ [][NextPair]_vars

NextMakeRequest == MakeRequest

SpecMakeRequest == InitMakeRequest /\ [][NextMakeRequest]_vars

NextTranscript ==
    \/ TranscriptRequest
    \/ TranscriptFetched

SpecTranscript == InitTranscript /\ [][NextTranscript]_vars

----------------------------------------------------------------------------
(* enhanceTranscriptLine on its own, and enhanceTranscriptBatch, cut at    *)
(* their await points.                                                     *)

outsideAlone == <<enhanceVars, requestVars, transcriptVars, pairVars, uiVars, retryVars>>

InitLine ==
    /\ lineText \in LineTexts
    /\ lineRequests = 0
    /\ lineFetch = NoFetch
    /\ lineResult = LinePending
    /\ BatchIdle
    /\ UiIdle
    /\ RetryIdle
    /\ EnhanceIdle
    /\ RequestIdle
    /\ TranscriptIdle
    /\ PairIdle

\* the call up to await fetch(...): the request is issued
LineCall ==
    /\ lineRequests = 0
    /\ lineRequests' = lineRequests + 1
    /\ UNCHANGED <<lineText, lineFetch, lineResult, batchVars, outsideAlone>>

\* the fetch settles and the call runs to its return
LineSettled ==
    /\ lineRequests > 0
    /\ lineResult.promise = "pending"
    /\ \E outcome \in LineOutcomes(MaxContentLen) :
            /\ lineFetch' = outcome
            /\ lineResult' = enhanceTranscriptLine(lineText, outcome)
    /\ UNCHANGED <<lineText, lineRequests, batchVars, outsideAlone>>

NextLine ==
    \/ LineCall
    \/ LineSettled

SpecLine == InitLine /\ [][NextLine]_vars

InitBatch ==
    /\ \E n \in 0..MaxTexts : texts = BatchTexts(n)
    /\ onProgress \in BOOLEAN
    /\ BatchStart0
    /\ LineIdle
    /\ UiIdle
    /\ RetryIdle
    /\ EnhanceIdle
    /\ RequestIdle
    /\ TranscriptIdle
    /\ PairIdle

\* the test of the for loop with i = start, and the body up to await Promise.all
BatchLoop(start) ==
    /\ bi' = start
    /\ IF start < Len(texts)
       THEN /\ lines' = [idx \in BatchIndexes(start) |-> NoLine]
            /\ bpc' = "await"
       ELSE /\ lines' = <<>>
            /\ bpc' = "done"

\* the call of enhanceTranscriptBatch
BatchCall ==
    /\ bpc = "idle"
    /\ BatchLoop(0)
    /\ UNCHANGED <<texts, onProgress, enhanced, progress, reordered, answers, lineVars, outsideAlone>>

\* the call of enhanceTranscriptLine for the line of index k settles and its
\* then callback runs
BatchLineSettled(k) ==
    /\ bpc = "await"
    /\ k \in DOMAIN lines
    /\ lines[k].promise = "pending"
    /\ \E outcome \in BatchOutcomes(texts[k + 1]) :
            LET result == enhanceTranscriptLine(texts[k + 1], outcome)
            IN  /\ lines' = [lines EXCEPT ![k] = ThenResult(bi, k - bi, result)]
                /\ answers' = [j \in DOMAIN answers \cup {k} |-> IF j = k THEN result ELSE answers[j]]
    /\ reordered' = (reordered \/ \E j \in DOMAIN lines : j < k /\ lines[j].promise = "pending")
    /\ UNCHANGED <<texts, onProgress, bpc, bi, enhanced, progress, lineVars, outsideAlone>>

\* a continuation that reports before it stores the results
BatchStored_reportFirst ==
    /\ bpc = "await"
    /\ \A k \in DOMAIN lines : lines[k].promise = "fulfilled"
    /\ enhanced' = StoreResults(enhanced, lines)
    /\ progress' =
            IF onProgress
            THEN Append(progress, [current |-> Min(bi + lineBatchSize, Len(texts)),
                                   total |-> Len(texts),
                                   stored |-> DOMAIN enhanced])
            ELSE progress
    /\ IF bi + lineBatchSize < Len(texts)
       THEN /\ bpc' = "sleep"
            /\ UNCHANGED <<bi, lines>>
       ELSE BatchLoop(bi + lineBatchSize)
    /\ UNCHANGED <<texts, onProgress, reordered, answers, lineVars, outsideAlone>>

\* Promise.all resolves: the results are stored, onProgress is called, and
\* the function goes to sleep or, after the last batch, returns
BatchStored ==
    /\ bpc = "await"
    /\ \A k \in DOMAIN lines : lines[k].promise = "fulfilled"
    /\ enhanced' = StoreResults(enhanced, lines)
    /\ progress' =
            IF onProgress
            THEN Append(progress, [current |-> Min(bi + lineBatchSize, Len(texts)),
                                   total |-> Len(texts),
                                   stored |-> DOMAIN enhanced'])
            ELSE progress
    /\ IF bi + lineBatchSize < Len(texts)
       THEN /\ bpc' = "sleep"
            /\ UNCHANGED <<bi, lines>>
       ELSE BatchLoop(bi + lineBatchSize)
    /\ UNCHANGED <<texts, onProgress, reordered, answers, lineVars, outsideAlone>>

\* the timer between two batches fires: i += batchSize and the next batch
BatchDelayOver ==
    /\ bpc = "sleep"
    /\ BatchLoop(bi + lineBatchSize)
    /\ UNCHANGED <<texts, onProgress, enhanced, progress, reordered, answers, lineVars, outsideAlone>>

\* some pending line of the batch settles
BatchLine == \E k \in 0..(MaxTexts + lineBatchSize) : BatchLineSettled(k)

NextBatch ==
    \/ BatchCall
    \/ BatchLine
    \/ BatchStored
    \/ BatchDelayOver

SpecBatch == InitBatch /\ [][NextBatch]_vars

\* every fetch settles, the timer fires, every ready continuation runs
SpecBatchSettles ==
    /\ InitBatch
    /\ [][NextBatch]_vars
    /\ WF_vars(BatchCall)
    /\ WF_vars(BatchLine)
    /\ WF_vars(BatchStored)
    /\ WF_vars(BatchDelayOver)

----------------------------------------------------------------------------
(* The component App, cut at the events of the user and at the await       *)
(* points of fetchTranscript and enhanceTranscript.  The states that only  *)
(* filter or decorate the display (searchQuery, copiedIndex, showHistory)  *)
(* are left out.                                                           *)

outsideUi ==
    <<enhanceVars, requestVars, transcriptVars, pairVars, lineVars, batchVars, retryVars>>

\* what the user may type: URLs a, b, c, ..., nothing, or a blank
UiUrls(n) == {PlainText(k) : k \in 1..n}

UiInputs(n) == UiUrls(n) \cup {<<>>, <<" ">>}

\* a list that keeps the earlier entry of the URL
saveToRecentSearches_noFilter(list, url) ==
    Slice(<<url>> \o list, 0, MaxRecentSearches)

\* [url, ...recentSearches.filter(u => u !== url)].slice(0, MAX_RECENT_SEARCHES)
saveToRecentSearches(list, url) ==
    Slice(<<url>> \o SelectSeq(list, LAMBDA u : u # url), 0, MaxRecentSearches)

InitUi ==
    /\ UiIdle
    /\ LineIdle
    /\ BatchIdle
    /\ RetryIdle
    /\ EnhanceIdle
    /\ RequestIdle
    /\ TranscriptIdle
    /\ PairIdle

\* onChange of the input, which is disabled while loading; inputs is what
\* the user of the run may type
SetVideoUrl(inputs) ==
    /\ ~loading
    /\ \E u \in inputs :
            /\ u # videoUrl
            /\ videoUrl' = u
    /\ UNCHANGED <<uiTranscript, loading, uiError, recentSearches, enhancing, localStorage,
                   fetchCall, enhanceCall, lastFetched, outsideUi>>

\* loadFromHistory: an entry of the dropdown is chosen
LoadFromHistory ==
    /\ \E k \in 1..Len(recentSearches) :
            /\ recentSearches[k] # videoUrl
            /\ videoUrl' = recentSearches[k]
    /\ UNCHANGED <<uiTranscript, loading, uiError, recentSearches, enhancing, localStorage,
                   fetchCall, enhanceCall, lastFetched, outsideUi>>

\* fetchTranscript up to await fetch: the button or Enter in the input,
\* both disabled while loading
FetchTranscript ==
    /\ ~loading
    /\ IF Trim(videoUrl) = <<>>
       THEN /\ uiError' = "Please enter a YouTube URL"
            /\ UNCHANGED <<uiTranscript, loading, fetchCall>>
       ELSE /\ loading' = TRUE
            /\ uiError' = ""
            /\ uiTranscript' = NoTranscript
            /\ fetchCall' = [active |-> TRUE, videoUrl |-> videoUrl,
                             recentSearches |-> recentSearches]
    /\ UNCHANGED <<videoUrl, recentSearches, enhancing, localStorage, enhanceCall,
                   lastFetched, outsideUi>>

\* the response of GET /api/transcript arrives, or the fetch throws
FetchSettled ==
    /\ fetchCall.active
    /\ \E outcome \in {"transcript", "error", "thrown"} :
            /\ IF outcome = "transcript"
               THEN /\ uiTranscript' = [video |-> fetchCall.videoUrl, enhanced |-> FALSE]
                    /\ recentSearches' =
                            saveToRecentSearches(fetchCall.recentSearches, fetchCall.videoUrl)
                    /\ localStorage' = recentSearches'
                    /\ lastFetched' = fetchCall.videoUrl
                    /\ UNCHANGED uiError
               ELSE /\ uiError' = (IF outcome = "error" THEN "Failed to fetch transcript"
                                   ELSE "Failed to connect to server")
                    /\ UNCHANGED <<uiTranscript, recentSearches, localStorage, lastFetched>>
    /\ loading' = FALSE
    /\ fetchCall' = NoCall
    /\ UNCHANGED <<videoUrl, enhancing, enhanceCall, outsideUi>>

\* enhanceTranscript up to await fetch: the button, which is shown with a
\* transcript when not loading and is disabled while enhancing
EnhanceTranscript ==
    /\ ~loading
    /\ ~enhancing
    /\ uiTranscript # NoTranscript
    /\ enhancing' = TRUE
    /\ enhanceCall' = [active |-> TRUE, transcript |-> uiTranscript]
    /\ UNCHANGED <<videoUrl, uiTranscript, loading, uiError, recentSearches, localStorage,
                   fetchCall, lastFetched, outsideUi>>

\* the response of POST /api/enhance arrives, or the fetch throws
EnhanceSettled ==
    /\ enhanceCall.active
    /\ \E outcome \in {"transcript", "error", "thrown"} :
            IF outcome = "transcript"
            THEN /\ uiTranscript' = [video |-> enhanceCall.transcript.video, enhanced |-> TRUE]
                 /\ UNCHANGED uiError
            ELSE /\ uiError' = (IF outcome = "error" THEN "Failed to fact-check transcript"
                                ELSE "Failed to connect to AI fact-checking service")
                 /\ UNCHANGED uiTranscript
    /\ enhancing' = FALSE
    /\ enhanceCall' = NoEnhanceCall
    /\ UNCHANGED <<videoUrl, loading, recentSearches, localStorage, fetchCall,
                   lastFetched, outsideUi>>

\* a user who fetches the transcripts of up to MaxShown videos and has
\* them enhanced
NextUi ==
    \/ SetVideoUrl(UiInputs(MaxShown))
    \/ LoadFromHistory
    \/ FetchTranscript
    \/ FetchSettled
    \/ EnhanceTranscript
    \/ EnhanceSettled

SpecUi == InitUi /\ [][NextUi]_vars

\* a user who fetches the transcripts of up to MaxUrls videos and picks
\* URLs from the history
NextHistory ==
    \/ SetVideoUrl(UiUrls(MaxUrls))
    \/ LoadFromHistory
    \/ FetchTranscript
    \/ FetchSettled

SpecHistory == InitUi /\ [][NextHistory]_vars

----------------------------------------------------------------------------
(* factCheckWithAI with its withRetry on its own, each attempt ending with *)
(* any outcome of makeRequest, so that the errors of the attempts differ.  *)

outsideRetry ==
    <<enhanceVars, requestVars, transcriptVars, pairVars, lineVars, batchVars, uiVars>>

RetryTexts == {<<"a">>, <<" ", "b">>}

InitRetry ==
    /\ retryText \in RetryTexts
    /\ RetryStart
    /\ LineIdle
    /\ BatchIdle
    /\ UiIdle
    /\ EnhanceIdle
    /\ RequestIdle
    /\ TranscriptIdle
    /\ PairIdle

\* a catch that keeps the error it caught first
CatchError_first(last, error) == IF last = NoError THEN error ELSE last

\* catch (error) { lastError = error as Error; ... }
CatchError(last, error) == error

\* factCheckWithAI calls withRetry(makeRequest, 3, 1000): attempt 0 starts
RetryCall ==
    /\ rpc = "idle"
    /\ rpc' = "attempt"
    /\ UNCHANGED <<retryText, retryAttempt, lastError, attempts, retryResult, factResult,
                   outsideRetry>>

\* await fn() settles: withRetry returns, waits, or throws lastError, and
\* factCheckWithAI returns what it got or, in its catch, the text
RetryAttemptSettled ==
    /\ rpc = "attempt"
    /\ \E outcome \in OracleOutcomes(retryText) :
            LET r == makeRequest(outcome)
            IN  /\ attempts' = Append(attempts, r)
                /\ IF r.ok
                   THEN /\ retryResult' = [settled |-> "fulfilled", value |-> r.text,
                                           error |-> NoError]
                        /\ factResult' = r.text
                        /\ rpc' = "done"
                        /\ UNCHANGED lastError
                   ELSE /\ lastError' = CatchError(lastError, r.error)
                        /\ IF retryAttempt < maxRetries
                           THEN /\ rpc' = "wait"
                                /\ UNCHANGED <<retryResult, factResult>>
                           ELSE /\ retryResult' = [settled |-> "rejected", value |-> Undefined,
                                                   error |-> lastError']
                                /\ factResult' = retryText
                                /\ rpc' = "done"
    /\ UNCHANGED <<retryText, retryAttempt, outsideRetry>>

\* sleep(delay) is over: attempt++ and the next call of fn
RetryDelayOver ==
    /\ rpc = "wait"
    /\ retryAttempt' = retryAttempt + 1
    /\ rpc' = "attempt"
    /\ UNCHANGED <<retryText, lastError, attempts, retryResult, factResult, outsideRetry>>

NextRetry ==
    \/ RetryCall
    \/ RetryAttemptSettled
    \/ RetryDelayOver

SpecRetry == InitRetry /\ [][NextRetry]_vars

----------------------------------------------------------------------------
(* Vocabulary of the properties *)

Segs == DOMAIN units

Dispatched(s) == units[s].phase # "idle"

Running(s) == units[s].phase \in {"request", "wait"}

\* 0-based index of the first segment of the batch of segment s
BatchStart(s) == ((s - 1) \div batchSize) * batchSize

SameBatch(s, t) == BatchStart(s) = BatchStart(t)

ValidRun == body.kind = "array" /\ Len(body.items) > 0 /\ WellFormed(body.items)

\* the result of a segment that was not changed
Unchanged(item) ==
    [text |-> item.text, duration |-> item.duration, offset |-> item.offset,
     original |-> Undefined, corrected |-> Undefined, hasError |-> FALSE]

\* what the correction unit of segment s returned to the map callback
Returned(s) ==
    IF oracleAnswer[s].st = "ok" THEN oracleAnswer[s].text ELSE body.items[s].text

\* the waits before attempt number k (attempts count from 0)
Schedule(k) == [j \in 1..k |-> baseDelay * (2 ^ (j - 1))]

----------------------------------------------------------------------------
(* C1: a run on a non-empty array of well-formed segments ends with a       *)
(* transcript of the input's length whose entry k has the duration and the *)
(* offset of input segment k, whatever the oracle did; the results         *)
(* sequence is at all times the results of the first segments, in order.   *)
C1_OrderPreserved ==
    /\ \A k \in 1..Len(corrected) :
            /\ k <= Len(body.items)
            /\ corrected[k] = units[k].result
            /\ corrected[k].duration = body.items[k].duration
            /\ corrected[k].offset = body.items[k].offset
    /\ (pc = "done" /\ ValidRun) =>
            /\ response.success
            /\ Len(response.transcript) = Len(body.items)
            /\ \A k \in 1..Len(body.items) :
                    /\ response.transcript[k].duration = body.items[k].duration
                    /\ response.transcript[k].offset = body.items[k].offset

C1_Witness ==
    /\ response.success
    /\ Len(response.transcript) > batchSize
    /\ \E s, t \in Segs : oracleAnswer[s].st = "failed" /\ oracleAnswer[t].st = "ok"

(* C2: the context of a dispatched segment is a run of corrected texts of  *)
(* segments of earlier batches, all of them completed; no text of its own  *)
(* batch is in it, whichever sibling has completed.                        *)
C2_ContextFromEarlierBatches ==
    \A s \in Segs :
        Dispatched(s) =>
            LET b == BatchStart(s)
            IN  /\ \A j \in 1..b : units[j].phase = "resolved"
                /\ \E lo \in 0..b : \E hi \in lo..b :
                        units[s].context = [k \in 1..(hi - lo) |-> units[lo + k].result.text]

C2_Witness ==
    \E s, t \in Segs :
        /\ s # t /\ SameBatch(s, t)
        /\ units[t].phase = "resolved" /\ units[t].result.hasError
        /\ Running(s)
        /\ units[s].context # <<>>
        /\ \A k \in 1..Len(units[s].context) : units[s].context[k] # units[t].result.text

(* C3: every segment of a batch is given the same context, the last        *)
(* contextLines entries of the log as it stood when the batch started.     *)
C3_SameContextForBatch ==
    \A s \in Segs :
        Dispatched(s) =>
            units[s].context =
                SliceLast(SubSeq(processedTexts, 1, BatchStart(s)), contextLines)

(* C4: hasError of a result is whether the trimmed input text differs from *)
(* the trimmed text the correction unit returned; text is the returned     *)
(* text as it is, and when hasError, original is the input text as it is   *)
(* and corrected the returned text as it is.                               *)
C4_ChangeFlag ==
    \A s \in Segs :
        units[s].phase = "resolved" =>
            LET r == units[s].result
                item == body.items[s]
            IN  /\ r.hasError = (Trim(item.text) # Trim(Returned(s)))
                /\ r.text = Returned(s)
                /\ r.hasError => (r.original = item.text /\ r.corrected = Returned(s))

C4_Witness ==
    \E s, t \in Segs :
        /\ units[s].phase = "resolved" /\ units[s].result.hasError
        /\ units[s].result.original # Trim(units[s].result.original)
        /\ units[t].phase = "resolved" /\ ~units[t].result.hasError
        /\ oracleAnswer[t].st = "ok"
        /\ body.items[t].text # Trim(body.items[t].text)

(* C5: a result with hasError = false has the input segment's text as it   *)
(* was, whitespace at its ends included, and no original and no corrected. *)
C5_UnchangedTextWhenNoError ==
    \A s \in Segs :
        (units[s].phase = "resolved" /\ ~units[s].result.hasError) =>
            /\ units[s].result.text = body.items[s].text
            /\ units[s].result.original = Undefined
            /\ units[s].result.corrected = Undefined

(* C6: a run in which no oracle request succeeded answers with success and *)
(* with every input segment unchanged: same text, duration and offset,     *)
(* hasError = false, no original and no corrected.                         *)
C6_AllFailFallback ==
    (pc = "done" /\ ValidRun /\ \A s \in Segs : oracleAnswer[s].st # "ok") =>
        /\ response.status = 200 /\ response.success
        /\ response.transcript = [k \in 1..Len(body.items) |-> Unchanged(body.items[k])]

C6_Witness ==
    /\ pc = "done" /\ response.success
    /\ Len(body.items) > batchSize
    /\ \A s \in Segs : oracleAnswer[s].st = "failed"
    /\ \E s \in Segs : body.items[s].text # Trim(body.items[s].text)

(* C7: a segment whose attempts all failed completes with its input        *)
(* unchanged and hasError = false; a segment the oracle answered completes *)
(* with the result its own answer determines; and a run on well-formed     *)
(* segments is never answered with the error of a failed correction.       *)
C7_FailureIsolated ==
    /\ ValidRun => response.status # 500
    /\ \A s \in Segs :
            body.items[s].text # Undefined =>
                /\ oracleAnswer[s].st = "failed" =>
                        /\ units[s].phase = "resolved"
                        /\ units[s].result = Unchanged(body.items[s])
                /\ oracleAnswer[s].st = "ok" =>
                        /\ units[s].phase = "resolved"
                        /\ units[s].result = Annotate(body.items[s], oracleAnswer[s].text)
    /\ response.success =>
            \A s \in Segs : response.transcript[s] = units[s].result

C7_Witness ==
    /\ response.success
    /\ \E s, t \in Segs :
            /\ s # t /\ SameBatch(s, t)
            /\ oracleAnswer[s].st = "failed"
            /\ oracleAnswer[t].st = "ok" /\ units[t].result.hasError

(* C8: attempt k of a unit is made after the waits baseDelay * 2^j for     *)
(* j < k and no others; a unit waits only when an attempt is left; and a   *)
(* unit gives up only on the failure of attempt maxRetries, its fourth,    *)
(* after waits of 1000, 2000 and 4000, and then returns the original text. *)
C8_InFlight ==
    \A s \in Segs :
        /\ units[s].phase = "request" =>
                units[s].attempt <= maxRetries /\ units[s].delays = Schedule(units[s].attempt)
        /\ units[s].phase = "wait" =>
                units[s].attempt < maxRetries /\ units[s].delays = Schedule(units[s].attempt + 1)

C8_GiveUp ==
    \A s \in Segs :
        (oracleAnswer[s].st = "none" /\ oracleAnswer'[s].st = "failed") =>
            /\ units[s].phase = "request"
            /\ units[s].attempt + 1 = maxRetries + 1
            /\ units[s].attempt + 1 = 4
            /\ units[s].delays = <<1000, 2000, 4000>>
            /\ body.items[s].text # Undefined =>
                    /\ units'[s].phase = "resolved"
                    /\ units'[s].result.text = body.items[s].text

\* C8: the schedule holds of every unit in flight, and every step in which a
\* unit gives up is the failure of its fourth attempt after the three waits
C8_BackoffSchedule == []C8_InFlight /\ [][C8_GiveUp]_vars

C8_Witness ==
    \E s, t \in Segs :
        /\ units[s].phase = "request"
        /\ units[s].attempt = maxRetries
        /\ units[s].delays = <<1000, 2000, 4000>>
        /\ oracleAnswer[t].st = "failed"
        /\ units[t].phase = "resolved"
        /\ units[t].result.text = body.items[t].text

(* C9: when a unit of a batch has been dispatched, every unit of every     *)
(* earlier batch has completed: none is in a request or in a backoff wait. *)
C9_BatchesSequential ==
    \A s, t \in Segs :
        (Dispatched(t) /\ BatchStart(s) < BatchStart(t)) => units[s].phase = "resolved"

C9_Witness ==
    \E s, t \in Segs :
        /\ BatchStart(s) < BatchStart(t)
        /\ oracleAnswer[s].st = "failed"
        /\ units[t].phase = "wait"

(* The in-order run, for C10: with an oracle whose answer is a function of the request, the      *)
(* transcript sent and the context of every dispatched segment are the     *)
(* ones of the run that completes its units in input order, whichever      *)
(* order the units of a batch completed in.                                *)
RefUnit(policy, item, context) ==
    LET r == makeRequest(DetOutcome(policy, Prompt(item.text, context)))
    IN  Annotate(item, IF r.ok THEN r.text ELSE item.text)

RECURSIVE RefRun(_, _, _, _)
RefRun(items, policy, start, acc) ==
    IF start >= Len(items) THEN acc
    ELSE LET log == [k \in 1..Len(acc) |-> acc[k].text]
             batch == [k \in 1..Min(batchSize, Len(items) - start) |->
                          RefUnit(policy, items[start + k], ContextFor(log, start + k - 1))]
         IN  RefRun(items, policy, start + batchSize, acc \o batch)

RefLog(items, policy) ==
    LET run == RefRun(items, policy, 0, <<>>) IN [k \in 1..Len(run) |-> run[k].text]

\* C10: the transcript sent and every context are those of the in-order run
C10_CompletionOrderIrrelevant ==
    /\ response.success => response.transcript = RefRun(body.items, oracle, 0, <<>>)
    /\ \A s \in Segs :
            Dispatched(s) =>
                units[s].context =
                    ContextFor(RefLog(SubSeq(body.items, 1, BatchStart(s)), oracle), s - 1)

C10_Witness ==
    /\ response.success
    /\ oracle = "contextual"
    /\ Len(body.items) > 2 * batchSize
    /\ \E s, t \in Segs : response.transcript[s].hasError /\ oracleAnswer[t].st = "failed"

----------------------------------------------------------------------------
(* The handler with the scheduling the event loop guarantees: a            *)
(* continuation that is ready runs and a timer that was set fires.  The    *)
(* fetch of makeRequest is given no signal and no timeout (server.ts       *)
(* 229-259), so nothing obliges an attempt to come back: OracleRespond has *)
(* no fairness here.                                                       *)
SpecSilentOracle ==
    /\ Init
    /\ [][Next]_vars
    /\ WF_vars(EnhanceRequest)
    /\ WF_vars(BackoffElapsed)
    /\ WF_vars(FanIn)
    /\ WF_vars(BatchDelayElapsed)
    /\ WF_vars(RunAbort)

(* C11: every oracle call carries a deadline, so that a call without a     *)
(* response fails, is retried and falls back: no unit stays pending for    *)
(* ever and every run sends its response, also when the oracle is silent.  *)
C11_RunCompletesWithSilentOracle == <>(pc = "done")

(* C12: at every moment at most batchSize correction units are dispatched  *)
(* and not completed (in a request or in a backoff wait), and they all     *)
(* belong to one batch.                                                    *)
C12_BoundedConcurrency ==
    /\ Cardinality({s \in Segs : Running(s)}) <= batchSize
    /\ \A s, t \in Segs : (Running(s) /\ Running(t)) => SameBatch(s, t)

C12_Witness ==
    /\ Cardinality({s \in Segs : Running(s)}) = batchSize
    /\ \E s, t \in Segs : units[s].phase = "wait" /\ units[t].phase = "request"

(* C13: while a correction unit is in flight, neither the log nor the      *)
(* results sequence is written, and the context of a dispatched unit never *)
(* changes; the log and the results grow only in a step that starts with   *)
(* every dispatched unit completed.                                        *)
C13_Step ==
    /\ (\E s \in Segs : Running(s)) =>
            (processedTexts' = processedTexts /\ corrected' = corrected)
    /\ \A s \in Segs : Dispatched(s) => units'[s].context = units[s].context
    /\ (processedTexts' # processedTexts \/ corrected' # corrected) =>
            /\ \A s \in Segs : Dispatched(s) => units[s].phase = "resolved"
            /\ Len(processedTexts') = Len(corrected')
            /\ Len(processedTexts') > Len(processedTexts)

\* C13: the log and the results are mutated only between batches
C13_MutatedOnlyBetweenBatches == [][C13_Step]_vars

C13_Witness ==
    \E s, t \in Segs :
        /\ SameBatch(s, t) /\ BatchStart(s) > 0
        /\ Running(s) /\ units[t].phase = "resolved"
        /\ units[s].context # <<>>
        /\ Len(processedTexts) = BatchStart(s)
        /\ Len(corrected) = BatchStart(s)

(* C14: a response is sent at most once and is what ends the run; it is    *)
(* either a success with one result per input segment or an error with no  *)
(* results; and a run on a non-empty array of well-formed segments is      *)
(* never answered with an error, whatever the oracle did.                  *)
C14_Shape ==
    /\ (pc = "done") <=> (response # NoResponse)
    /\ response # NoResponse =>
            \/ /\ response.success /\ response.status = 200
               /\ body.kind = "array"
               /\ Len(response.transcript) = Len(body.items)
               /\ \A k \in 1..Len(body.items) : units[k].phase = "resolved"
            \/ /\ ~response.success /\ response.status \in {400, 500}
               /\ response.transcript = <<>>
    /\ ValidRun => response.status \in {0, 200}

C14_Once == response # NoResponse => response' = response

\* C14: exactly one response, a full success or an error without results
C14_OneResponse == []C14_Shape /\ [][C14_Once]_vars

C14_Witness ==
    /\ pc = "done" /\ response.success
    /\ Len(response.transcript) = Len(body.items)
    /\ Len(body.items) > batchSize
    /\ \E s, t \in Segs :
            /\ oracleAnswer[s].st = "failed"
            /\ response.transcript[t].hasError

(* C15: the transcript a, b, c, d, e, f, g with an oracle that returns     *)
(* every line unchanged except "e", which it returns as "E": the response  *)
(* has the 7 results in input order, hasError = false and no original and  *)
(* no corrected everywhere but at index 4 (the fifth), which has           *)
(* original "e", corrected "E", text "E" and hasError = true.              *)
ScenarioRun ==
    /\ oracle = "scenario"
    /\ body.kind = "array"
    /\ body.items = Transcript(1, Len(Letters))

C15_Scenario ==
    (ScenarioRun /\ pc = "done") =>
        /\ response.success
        /\ Len(response.transcript) = 7
        /\ \A k \in 1..7 :
              LET r == response.transcript[k]
              IN  /\ r.duration = body.items[k].duration
                  /\ r.offset = body.items[k].offset
                  /\ IF k = 5
                     THEN /\ r.hasError
                          /\ r.original = <<"e">>
                          /\ r.corrected = <<"E">>
                          /\ r.text = <<"E">>
                     ELSE /\ ~r.hasError
                          /\ r.text = <<Letters[k]>>
                          /\ r.original = Undefined
                          /\ r.corrected = Undefined

C15_Witness ==
    /\ ScenarioRun /\ pc = "done"
    /\ response.transcript[5].text = <<"E">>
    /\ response.transcript[7].text = <<"g">>

(* C16: the context of a dispatched unit has at most contextLines entries  *)
(* and is a suffix of the log as it stood at dispatch, in the log's order; *)
(* it is empty in the first batch only, and then the request carries no    *)
(* context block; otherwise the block is the context.                      *)
RequestOf(s) == Prompt(body.items[s].text, units[s].context)

C16_ContextWindow ==
    \A s \in Segs :
        Dispatched(s) =>
            LET ctx == units[s].context
                log == SubSeq(processedTexts, 1, BatchStart(s))
            IN  /\ Len(processedTexts) >= BatchStart(s)
                /\ Len(ctx) <= contextLines
                /\ Len(ctx) <= Len(log)
                /\ ctx = SubSeq(log, Len(log) - Len(ctx) + 1, Len(log))
                /\ (ctx = <<>>) <=> (BatchStart(s) = 0)
                /\ RequestOf(s).block = ctx

C16_Witness ==
    \E s \in Segs :
        /\ Running(s)
        /\ BatchStart(s) > contextLines
        /\ Len(units[s].context) = contextLines
        /\ RequestOf(s).block = SubSeq(processedTexts, BatchStart(s) - 2, BatchStart(s))
        /\ units[s].context[1] # processedTexts[1]

(* C17: the step that appends a batch's results either leaves segments to  *)
(* process, and then sets the pause of batchDelayMs = 1500 and sends       *)
(* nothing, or it was the last batch, and then it sends the response with  *)
(* no pause, also when the length is a multiple of batchSize; a later      *)
(* batch is dispatched only by the end of that one pause.                  *)
C17_Pausing == (pc = "sleep") <=> (timer = batchDelayMs)

C17_Step ==
    /\ Len(corrected') > Len(corrected) =>
            IF Len(corrected') < Len(body.items)
            THEN /\ pc' = "sleep"
                 /\ timer = 0 /\ timer' = batchDelayMs /\ timer' = 1500
                 /\ response' = NoResponse
                 /\ units' = units
            ELSE /\ pc' = "done"
                 /\ timer = 0 /\ timer' = 0
                 /\ response'.success
    /\ \A s \in Segs :
            (units[s].phase = "idle" /\ units'[s].phase # "idle") =>
                /\ pc = "sleep" /\ timer = batchDelayMs
                /\ pc' = "await" /\ timer' = 0
                /\ corrected' = corrected
    /\ timer # 0 =>
            /\ timer' = 0
            /\ \E s \in Segs : units[s].phase = "idle" /\ units'[s].phase = "request"

\* C17: one pause of batchDelayMs after every batch but the last
C17_InterBatchDelay == []C17_Pausing /\ [][C17_Step]_vars

C17_Witness ==
    /\ pc = "sleep" /\ timer = 1500
    /\ Len(body.items) = 2 * batchSize
    /\ Len(corrected) = batchSize
    /\ response = NoResponse

C17_MultipleWitness ==
    /\ pc = "done" /\ response.success
    /\ Len(body.items) = 2 * batchSize
    /\ timer = 0

----------------------------------------------------------------------------
(* C18: one call of makeRequest ends in one of three ways: a status that   *)
(* is not a success is a failure; a success without a completion, or with  *)
(* one that is empty or all whitespace, is a failure; any other completion *)
(* is returned without its leading and trailing whitespace, so a text that *)
(* comes from the oracle is never empty and never starts or ends with      *)
(* whitespace.  A fetch that rejects is a failure as well.                 *)
Blank(c) == \A k \in 1..Len(c) : c[k] \in {" ", "\t", "\n", "\r"}

C18_MakeRequestOutcomes ==
    requestResult # Pending =>
        LET r == requestResult
            c == fetched.content
        IN  /\ fetched.kind = "status" => ~r.ok /\ r.error = "AI API request failed"
            /\ fetched.kind = "netError" => ~r.ok
            /\ (fetched.kind = "noContent" \/ (fetched.kind = "content" /\ Blank(c))) =>
                    ~r.ok /\ r.error = "No response from AI"
            /\ (fetched.kind = "content" /\ ~Blank(c)) =>
                    /\ r.ok
                    /\ \E a, b \in 0..Len(c) :
                            /\ a + Len(r.text) + b = Len(c)
                            /\ SubSeq(c, a + 1, Len(c) - b) = r.text
                            /\ Blank(SubSeq(c, 1, a))
                            /\ Blank(SubSeq(c, Len(c) - b + 1, Len(c)))
            /\ r.ok =>
                    /\ r.text # <<>>
                    /\ ~Blank(<<r.text[1]>>)
                    /\ ~Blank(<<r.text[Len(r.text)]>>)

C18_Witness ==
    /\ requestResult.ok
    /\ fetched.content = <<"\n", "a", " ">>
    /\ requestResult.text = <<"a">>

----------------------------------------------------------------------------
(* C19: fetch_transcript.py is started only with an identifier of 5 to 20  *)
(* characters out of letters, digits, "_" and "-": a request whose         *)
(* validation does not produce such an identifier is answered 400 and      *)
(* starts no subprocess.                                                   *)
IsIdentifier(v) ==
    /\ v # Undefined
    /\ Len(v) \in 5..20
    /\ \A k \in 1..Len(v) : v[k] \in IdChars

C19_OnlyIdentifiersSpawned ==
    /\ Len(spawned) <= 1
    /\ \A k \in 1..Len(spawned) : IsIdentifier(spawned[k])
    /\ tpc # "idle" =>
            IF validation.valid /\ IsIdentifier(validation.videoId)
            THEN spawned = <<validation.videoId>>
            ELSE /\ spawned = <<>>
                 /\ tpc = "done"
                 /\ tresponse.status = 400 /\ ~tresponse.success

C19_Witness ==
    /\ tpc = "done"
    /\ built.id = IdShell /\ built.shape = "youtu.be"
    /\ validation.extracted = IdShell
    /\ validation.error = "Invalid video ID format"
    /\ tresponse.status = 400
    /\ spawned = <<>>

----------------------------------------------------------------------------
(* C20: extractVideoId gives the identifier ID of every input of a         *)
(* supported shape (watch?v=ID, youtu.be/ID, shorts/ID, embed/ID, a bare   *)
(* ID), whatever follows the ID from its first "?", "#" or "&".            *)
SupportedShapes == {"watch", "youtu.be", "shorts", "embed", "bare", "noScheme"}

C20_ExtractsBareId ==
    (validation.extracted # Undefined /\ built.shape \in SupportedShapes) =>
        validation.extracted = built.id

----------------------------------------------------------------------------
(* C21: the input "short" is rejected by validateYouTubeInput.             *)
BareInput(id) == built.shape = "bare" /\ built.id = id /\ built.tail = <<>>

C21_ShortRejected ==
    (tpc # "idle" /\ BareInput(IdShort)) => ~validation.valid

(* C21, amended: "short" has 5 characters and is accepted with itself as   *)
(* the identifier; an input of 4 identifier characters is rejected.        *)
C21_ShortAccepted ==
    tpc # "idle" =>
        /\ BareInput(IdShort) =>
                /\ validation.valid
                /\ validation.videoId = <<"s", "h", "o", "r", "t">>
                /\ spawned = <<validation.videoId>>
        /\ BareInput(IdFour) =>
                /\ ~validation.valid
                /\ validation.error = "Could not extract valid video ID"
                /\ tresponse.status = 400

C21_Witness ==
    /\ tpc = "fetching"
    /\ BareInput(IdShort)
    /\ Len(query.url) = 5
    /\ validation.valid

----------------------------------------------------------------------------
(* C22: an input that, with its ends trimmed, still contains a null byte,  *)
(* a newline or a carriage return is rejected by validateYouTubeInput,     *)
(* wherever the character is.  Stated on the inputs without "://" and      *)
(* "www.", for which validator.isURL is not called and has no say.         *)
ControlChars == {"\\0", "\n", "\r"}

C22_ControlCharsRejected ==
    (/\ tpc # "idle"
     /\ query.kind = "string"
     /\ ~Includes(query.url, <<":", "/", "/">>)
     /\ ~Includes(query.url, <<"w", "w", "w", ".">>)
     /\ \E k \in 1..Len(Trim(query.url)) : Trim(query.url)[k] \in ControlChars)
        => ~validation.valid

----------------------------------------------------------------------------
(* C23: a segment whose text is "" does not abort the run: no unit is      *)
(* rejected and no error is answered; when its correction fails the        *)
(* segment completes with text "" and hasError = false at its own index;   *)
(* and the response carries the result of every segment of the input.      *)
HasEmptyText == ValidRun /\ \E k \in 1..Len(body.items) : body.items[k].text = <<>>

C23_EmptyTextTolerated ==
    HasEmptyText =>
        /\ response.status # 500
        /\ \A s \in Segs :
                /\ units[s].phase # "rejected"
                /\ (body.items[s].text = <<>> /\ oracleAnswer[s].st = "failed") =>
                        /\ units[s].phase = "resolved"
                        /\ units[s].result.text = <<>>
                        /\ ~units[s].result.hasError
                        /\ units[s].result.offset = body.items[s].offset
        /\ pc = "done" =>
                /\ response.success
                /\ Len(response.transcript) = Len(body.items)
                /\ \A k \in 1..Len(body.items) :
                        response.transcript[k] = Annotate(body.items[k], Returned(k))

C23_Witness ==
    /\ pc = "done" /\ response.success
    /\ Len(body.items) > batchSize
    /\ body.items[2].text = <<>>
    /\ oracleAnswer[2].st = "failed"
    /\ response.transcript[2].text = <<>>
    /\ ~response.transcript[2].hasError
    /\ oracleAnswer[1].st = "ok" /\ oracleAnswer[3].st = "ok"

----------------------------------------------------------------------------
(* C24: the completed-texts log is empty when the run starts and only      *)
(* grows at its end: a step never removes or changes an entry; and the log *)
(* is, in order, the text fields of the results sequence, both with one    *)
(* entry for every segment of the batches that have been fanned in.        *)
FannedIn ==
    IF pc = "sleep" THEN i + batchSize
    ELSE IF pc = "done" /\ response.success THEN Len(body.items)
    ELSE i

C24_LogIsResults ==
    /\ pc = "idle" => processedTexts = <<>>
    /\ Len(processedTexts) = FannedIn
    /\ Len(corrected) = FannedIn
    /\ processedTexts = [k \in 1..Len(corrected) |-> corrected[k].text]
    /\ \A k \in 1..Len(corrected) : corrected[k] = units[k].result

C24_Append ==
    /\ Len(processedTexts') >= Len(processedTexts)
    /\ SubSeq(processedTexts', 1, Len(processedTexts)) = processedTexts
    /\ SubSeq(corrected', 1, Len(corrected)) = corrected

\* C24: the log only grows by appending and mirrors the results sequence
C24_LogAppendOnly == []C24_LogIsResults /\ [][C24_Append]_vars

C24_Witness ==
    /\ pc = "done" /\ response.success
    /\ Len(body.items) > batchSize
    /\ Len(processedTexts) = Len(body.items)
    /\ \E k \in 1..Len(processedTexts) : processedTexts[k] # body.items[k].text

----------------------------------------------------------------------------
(* C25: when every oracle request returns, the run sends its response; on  *)
(* a non-empty array of well-formed segments it does so after              *)
(* ceil(n / batchSize) batches, taken one after the other in input order:  *)
(* the loop index only moves forward by batchSize, every segment has       *)
(* completed, and the index has then made that many steps.                 *)
Ceil(n, d) == (n + d - 1) \div d

C25_AllBatches ==
    (pc = "done" /\ ValidRun) =>
        /\ response.success
        /\ i = batchSize * Ceil(Len(body.items), batchSize)
        /\ Len(corrected) = Len(body.items)
        /\ \A s \in Segs : units[s].phase = "resolved"

C25_LoopStep ==
    /\ i' # i => i' = i + batchSize /\ i < Len(body.items)
    /\ \A s \in Segs :
            (units[s].phase = "idle" /\ units'[s].phase # "idle") =>
                /\ i' = BatchStart(s)
                /\ \A r \in Segs : r <= i' => units[r].phase = "resolved"

\* C25: the run ends with a response after ceil(n / batchSize) batches
C25_RunCompletes == <>(pc = "done") /\ []C25_AllBatches /\ [][C25_LoopStep]_vars

C25_Witness ==
    /\ pc = "done" /\ response.success
    /\ Len(body.items) = batchSize + 1
    /\ i = 2 * batchSize
    /\ \E s \in Segs : oracleAnswer[s].st = "failed"

----------------------------------------------------------------------------
(* C26: a unit makes between 1 and maxRetries + 1 = 4 oracle requests, one *)
(* per attempt: it starts in the request of attempt 0, a request is        *)
(* followed by a wait only after a failure with an attempt left, a wait by *)
(* the request of the next attempt; after its first successful attempt, or *)
(* its last failure, the unit neither requests nor waits again, and the    *)
(* result of a unit that succeeded is made of the text of that attempt.    *)
C26_Attempts ==
    \A s \in Segs :
        /\ Running(s) => units[s].attempt \in 0..maxRetries /\ units[s].attempt + 1 <= 4
        /\ units[s].phase = "wait" => units[s].attempt < maxRetries
        /\ Running(s) => oracleAnswer[s].st = "none"
        /\ (oracleAnswer[s].st = "ok" /\ units[s].phase = "resolved") =>
                units[s].result = Annotate(body.items[s], oracleAnswer[s].text)

C26_UnitStep ==
    \A s \in Segs :
        /\ (units[s].phase = "idle" /\ units'[s].phase # "idle") =>
                units'[s].phase = "request" /\ units'[s].attempt = 0
        /\ (units[s].phase = "request" /\ units'[s] # units[s]) =>
                \/ /\ units'[s].phase = "wait"
                   /\ units'[s].attempt = units[s].attempt
                   /\ oracleAnswer'[s].st = "none"
                \/ /\ units'[s].phase \in {"resolved", "rejected"}
                   /\ oracleAnswer'[s].st = "ok"
                \/ /\ units'[s].phase \in {"resolved", "rejected"}
                   /\ oracleAnswer'[s].st = "failed"
                   /\ units[s].attempt = maxRetries
        /\ (units[s].phase = "wait" /\ units'[s] # units[s]) =>
                /\ units'[s].phase = "request"
                /\ units'[s].attempt = units[s].attempt + 1
        /\ units[s].phase \in {"resolved", "rejected"} =>
                /\ units'[s] = units[s]
                /\ oracleAnswer'[s] = oracleAnswer[s]

\* C26: between 1 and maxRetries + 1 requests, none after the first success
C26_RequestCount == []C26_Attempts /\ [][C26_UnitStep]_vars

C26_Witness ==
    \E s \in Segs :
        /\ units[s].phase = "resolved"
        /\ oracleAnswer[s].st = "ok"
        /\ units[s].result.hasError
        /\ \E t \in Segs : units[t].phase = "request" /\ units[t].attempt = maxRetries

----------------------------------------------------------------------------
(* C27: once the response of a run is sent, with success or with an error, *)
(* no correction unit of the run is in an oracle request or in a backoff   *)
(* wait.                                                                   *)
C27_NoUnitOutlivesResponse ==
    response # NoResponse => \A s \in Segs : ~Running(s)

----------------------------------------------------------------------------
(* C28: a body whose transcript is missing, is no array or is an empty     *)
(* array is answered 400 and no correction unit is ever started for it;    *)
(* the empty array gets the error "Transcript is empty", not a success     *)
(* with no results.                                                        *)
C28_InvalidBodyRejected ==
    (body.kind # "array" \/ Len(body.items) = 0) =>
        /\ units = <<>> /\ oracleAnswer = <<>>
        /\ pc \in {"idle", "done"}
        /\ pc = "done" =>
                /\ response.status = 400 /\ ~response.success
                /\ response.transcript = <<>>
                /\ response.error =
                        IF body.kind = "array" THEN "Transcript is empty"
                        ELSE "Invalid transcript data"

C28_Witness ==
    /\ pc = "done"
    /\ body.kind = "array" /\ body.items = <<>>
    /\ response = ErrorResponse(400, "Transcript is empty")

----------------------------------------------------------------------------
(* C29: a GET /api/transcript request is answered once: until it is, the   *)
(* handler is before its first step or waits for the subprocess, and a     *)
(* response that was sent stays.  The                                      *)
(* response is 400 when url is missing or does not pass the validation,    *)
(* and then without a subprocess; 500 when the subprocess fails; 404 when  *)
(* it returns no segment; otherwise success with the segments it returned, *)
(* in their order, and the identifier the validation extracted.            *)
C29_Answer ==
    /\ (tpc = "done") <=> (tresponse # NoTranscriptResponse)
    /\ tpc = "done" =>
            IF source = NoSource
            THEN /\ tresponse.status = 400 /\ ~tresponse.success
                 /\ \/ query.kind = "missing"
                    \/ query.url = <<>>
                    \/ ~validation.valid
                 /\ spawned = <<>>
            ELSE /\ validation.valid /\ query.kind = "string"
                 /\ source.kind \in {"execError", "notSuccess"} =>
                        tresponse.status = 500 /\ ~tresponse.success
                 /\ (source.kind = "transcript" /\ source.transcript = <<>>) =>
                        tresponse.status = 404 /\ ~tresponse.success
                 /\ (source.kind = "transcript" /\ source.transcript # <<>>) =>
                        /\ tresponse.status = 200 /\ tresponse.success
                        /\ tresponse.transcript = source.transcript
                        /\ tresponse.videoId = validation.videoId
                        /\ tresponse.videoId = validation.extracted
    /\ tpc = "fetching" => validation.valid /\ source = NoSource
    /\ tpc \in {"idle", "fetching", "done"}

C29_Once == tresponse # NoTranscriptResponse => tresponse' = tresponse

\* C29: every transcript request gets its one response, by the four cases
C29_OneAnswer == []C29_Answer /\ [][C29_Once]_vars

C29_Witness ==
    /\ tpc = "done"
    /\ tresponse.success
    /\ Len(tresponse.transcript) = 2
    /\ tresponse.transcript[1].offset < tresponse.transcript[2].offset
    /\ built.shape = "watch" /\ built.tail = TailAmp
    /\ tresponse.videoId = IdVideo

----------------------------------------------------------------------------
(* C30: two requests that run at once share no log and no results: under   *)
(* every interleaving the log, the contexts and the results of a request   *)
(* hold only texts that come from its own transcript, and its contexts and *)
(* its response are those of the request running alone against the same    *)
(* oracle.                                                                 *)
OwnTexts(items) ==
    {items[k].text : k \in 1..Len(items)} \cup {Correct(items[k].text) : k \in 1..Len(items)}

Within(log, items) == \A k \in 1..Len(log) : log[k] \in OwnTexts(items)

C30_RunsIsolated ==
    \A r \in DOMAIN runs :
        LET run == runs[r]
        IN  /\ Within(run.processedTexts, run.items)
            /\ Within([k \in 1..Len(run.corrected) |-> run.corrected[k].text], run.items)
            /\ \A s \in DOMAIN run.units :
                    run.units[s].phase # "idle" =>
                        /\ Within(run.units[s].context, run.items)
                        /\ run.units[s].context =
                                ContextFor(RefLog(SubSeq(run.items, 1, BatchStart(s)), oracle), s - 1)
            /\ run.pc = "done" =>
                    /\ run.response.success
                    /\ run.response.transcript = RefRun(run.items, oracle, 0, <<>>)

C30_Witness ==
    /\ DOMAIN runs = {1, 2}
    /\ oracle = "contextual"
    /\ runs[1].pc = "done" /\ Len(runs[1].items) > batchSize
    /\ runs[2].pc = "await" /\ runs[2].i = batchSize
    /\ runs[2].units[batchSize + 1].phase = "request"
    /\ runs[2].units[batchSize + 1].context # <<>>
    /\ \E k \in 1..Len(runs[1].corrected) : runs[1].corrected[k].hasError

----------------------------------------------------------------------------
(* C31: enhanceTranscriptLine never rejects and issues one request, never  *)
(* a second: when the fetch throws, the status is not ok, the body cannot  *)
(* be read or the completion is missing or empty once trimmed, the call    *)
(* resolves with success false, an error and the original text; otherwise  *)
(* it resolves with success true, the original text and a completion that  *)
(* is not empty and has no whitespace at its ends.                         *)
C31_Fails ==
    \/ lineFetch.kind \in {"netError", "status", "noContent", "bodyError"}
    \/ Trim(lineFetch.content) = <<>>

C31_LineOutcome ==
    /\ lineRequests <= 1
    /\ lineResult.promise # "rejected"
    /\ (lineResult.promise = "fulfilled") <=> (lineFetch # NoFetch)
    /\ lineResult.promise = "fulfilled" =>
            /\ lineRequests = 1
            /\ lineResult.original = lineText
            /\ IF C31_Fails
               THEN /\ ~lineResult.success
                    /\ lineResult.error # ""
                    /\ lineResult.enhanced = Undefined
               ELSE /\ lineResult.success
                    /\ lineResult.enhanced = Trim(lineFetch.content)
                    /\ lineResult.enhanced # <<>>
                    /\ ~IsWhitespace(Head(lineResult.enhanced))
                    /\ ~IsWhitespace(lineResult.enhanced[Len(lineResult.enhanced)])

C31_Witness ==
    /\ lineFetch.kind = "status"
    /\ lineResult.promise = "fulfilled"
    /\ ~lineResult.success
    /\ lineResult.original = <<" ", "a", "b">>
    /\ lineRequests = 1

C31_SuccessWitness ==
    /\ lineFetch = [kind |-> "content", content |-> <<" ", "a", "\n">>]
    /\ lineResult.success
    /\ lineResult.enhanced = <<"a">>

----------------------------------------------------------------------------
(* C32: enhanceTranscriptBatch never rejects and, every fetch settling,    *)
(* returns; the map it returns has the keys 0 .. n-1 for n texts, and the  *)
(* value at i is the enhanced text of line i when its call succeeded and   *)
(* texts[i] when it failed, in whatever order the lines of a batch settle. *)
C32_Value(k) ==
    IF answers[k].success THEN answers[k].enhanced ELSE texts[k + 1]

C32_Map ==
    /\ \A k \in DOMAIN lines : lines[k].promise # "rejected"
    /\ \A k \in DOMAIN enhanced : k \in DOMAIN answers /\ enhanced[k] = C32_Value(k)
    /\ bpc = "done" =>
            /\ DOMAIN enhanced = 0..(Len(texts) - 1)
            /\ DOMAIN answers = 0..(Len(texts) - 1)

----------------------------------------------------------------------------
(* C33: with a progress callback, enhanceTranscriptBatch calls it once for *)
(* every batch, after the results of all lines of the batch are in the     *)
(* map, with current = min(5 * (k + 1), n) and total = n for batch k; the  *)
(* current values strictly increase, the last one is n, and there is no    *)
(* call for an empty input.  Without a callback nothing is called.         *)
C33_BatchesStored ==
    CASE bpc = "idle"  -> 0
      [] bpc = "await" -> bi \div lineBatchSize
      [] bpc = "sleep" -> (bi \div lineBatchSize) + 1
      [] OTHER         -> (Len(texts) + lineBatchSize - 1) \div lineBatchSize

C33_ProgressPerBatch ==
    /\ Len(progress) = (IF onProgress THEN C33_BatchesStored ELSE 0)
    /\ Len(texts) = 0 => progress = <<>>
    /\ \A k \in 1..Len(progress) :
            /\ progress[k].current = Min(5 * k, Len(texts))
            /\ progress[k].total = Len(texts)
            /\ progress[k].stored = 0..(progress[k].current - 1)
            /\ k > 1 => progress[k - 1].current < progress[k].current
    /\ (bpc = "done" /\ progress # <<>>) => progress[Len(progress)].current = Len(texts)

C33_Witness ==
    /\ bpc = "done"
    /\ onProgress
    /\ Len(texts) = 11
    /\ Len(progress) = 3
    /\ progress[1].current = 5
    /\ progress[2].current = 10
    /\ progress[3].current = 11
    /\ progress[3].total = 11

----------------------------------------------------------------------------
(* C34: the transcript on display is a transcript of the video fetched     *)
(* last: the response of an enhancement that was asked for an earlier      *)
(* transcript does not replace a transcript fetched in the meantime.       *)
C34_ShownIsLatest ==
    uiTranscript # NoTranscript => uiTranscript.video = lastFetched

----------------------------------------------------------------------------
(* C35: from an empty history on, the list of recent searches has at most  *)
(* 5 entries and no URL twice, its first entry is the URL fetched last,    *)
(* and the list in localStorage is the list in the state; a fetch that     *)
(* fails leaves both lists as they were.                                   *)
C35_List ==
    /\ Len(recentSearches) <= 5
    /\ \A j, k \in 1..Len(recentSearches) : j # k => recentSearches[j] # recentSearches[k]
    /\ (recentSearches = <<>>) <=> (lastFetched = NoUrl)
    /\ recentSearches # <<>> => Head(recentSearches) = lastFetched
    /\ localStorage = recentSearches

C35_FailedFetch ==
    (fetchCall.active /\ ~fetchCall'.active /\ uiError' # "")
        => UNCHANGED <<recentSearches, localStorage>>

C35_RecentSearches == []C35_List /\ [][C35_FailedFetch]_vars

C35_Witness ==
    /\ recentSearches = <<PlainText(2), PlainText(6), PlainText(5), PlainText(4), PlainText(3)>>
    /\ localStorage = recentSearches
    /\ lastFetched = PlainText(2)
    /\ ~fetchCall.active
    /\ uiError = "Failed to fetch transcript"

----------------------------------------------------------------------------
(* C36: when all maxRetries + 1 attempts fail, withRetry rejects with the  *)
(* error of the last attempt, and factCheckWithAI then returns the text it *)
(* was given; when withRetry returns, it returns what its last attempt     *)
(* returned, and it does so or rejects only at the end of an attempt.      *)
C36_Last == attempts[Len(attempts)]

C36_LastError ==
    /\ Len(attempts) <= maxRetries + 1
    /\ \A k \in 1..(Len(attempts) - 1) : ~attempts[k].ok
    /\ (rpc = "done") <=> (retryResult.settled # "pending")
    /\ retryResult.settled = "rejected" =>
            /\ Len(attempts) = maxRetries + 1
            /\ ~C36_Last.ok
            /\ retryResult.error = C36_Last.error
            /\ factResult = retryText
    /\ retryResult.settled = "fulfilled" =>
            /\ C36_Last.ok
            /\ retryResult.value = C36_Last.text
            /\ factResult = retryResult.value
    /\ (rpc = "done" /\ ~C36_Last.ok) => retryResult.settled = "rejected"

C36_Witness ==
    /\ retryResult.settled = "rejected"
    /\ attempts[1].error = "fetch failed"
    /\ attempts[4].error = "No response from AI"
    /\ retryResult.error = "No response from AI"
    /\ factResult = <<" ", "b">>

====
